---- MODULE Spec2Model ----
(***************************************************************************)
(* Task controller of the todo-app backend: the task store, the request   *)
(* handlers (list, create, get-by-id, update, partial update, bulk delete, *)
(* delete-by-id, dashboard) and the ownership guard, translated from       *)
(* src/controllers/usersController.js lines 112-563 (the revision of the   *)
(* tasks controller that the routes import: it exports partialUpdateTask   *)
(* and dashboard) and from the mongoose schema of src/models/taskModel.js. *)
(*                                                                         *)
(* Strings the handlers only test for truthiness, membership and trim()    *)
(* are TLA+ strings taken from small universes; Undefined stands for a     *)
(* parameter that is not sent.  Free-text strings (title, description) are *)
(* records [present, pad, len]: len is the length of the trimmed text and  *)
(* pad says whether the raw text carries surrounding blanks.  Instants are *)
(* integers, DayLen of them to a calendar day.  Optional stored fields are *)
(* sets with at most one element.                                          *)
(***************************************************************************)
EXTENDS Integers, Sequences, FiniteSets, TLC

VARIABLES tasks, nextId, clock, req, resp, accounts, digest, inflight

vars == <<tasks, nextId, clock, req, resp, accounts, digest, inflight>>

---------------------------------------------------------------------------
(* Bounds of the model *)

MaxTasks == 2

MaxDrawn == 3

MaxClock == 3
(* requests served concurrently *)
MaxFlights == 2

(* Program constants *)

TitleMin == 2

TitleMax == 25

DescMax == 100

SchemaTitleMin == 3

SchemaTitleMax == 100

SchemaDescMin == 3

SchemaDescMax == 500

DayLen == 2

---------------------------------------------------------------------------
(* Vocabulary *)

Users == {"u1", "u2"}

Ids == 1..MaxTasks

Undefined == "<undefined>"

VALID_STATUS == {"pending", "in-progress", "completed"}

VALID_TYPE == {"work", "personal"}

validSortOptions == {"deadline", "-deadline", "createdAt", "-createdAt"}

validTypes == {"all", "work", "personal"}

(* JavaScript truthiness of a string-or-undefined value *)
Truthy(s) == s # Undefined /\ s # ""

(* String.prototype.trim on the enumerated universe: the padded spellings *)
Trim(s) ==
    CASE s = " work " -> "work"
      [] s = " personal " -> "personal"
      [] s = " completed " -> "completed"
      [] s = " pending " -> "pending"
      [] s = " " -> ""
      [] OTHER -> s

(* String.prototype.toLowerCase on the enumerated universe *)
ToLowerCase(s) ==
    CASE s = "ALL" -> "all"
      [] s = "Work" -> "work"
      [] s = "WORK" -> "work"
      [] s = "Personal" -> "personal"
      [] OTHER -> s

(* sort.replace('-', ''): removes the first dash *)
ReplaceDash(s) ==
    CASE s = "-deadline" -> "deadline"
      [] s = "-createdAt" -> "createdAt"
      [] s = "-title" -> "title"
      [] s = "-" -> ""
      [] OTHER -> s

(* sort.startsWith('-') *)
StartsWithDash(s) == s \in {"-deadline", "-createdAt", "-title", "-"}

---------------------------------------------------------------------------
(* Free text *)

AbsentStr == [present |-> FALSE, pad |-> FALSE, len |-> 0]

Text(n, p) == [present |-> TRUE, pad |-> p, len |-> n]

(* raw length: the trimmed text plus one blank on each side when padded *)
RawLen(s) == IF s.pad THEN s.len + 2 ELSE s.len

TruthyStr(s) == s.present /\ RawLen(s) > 0

TrimStr(s) == [s EXCEPT !.pad = FALSE]

(* Deadline values of a request body *)
NoDeadlineIn == [kind |-> "undefined", at |-> 0]

MalformedDeadline == [kind |-> "malformed", at |-> 0]

DateIn(t) == [kind |-> "date", at |-> t]

---------------------------------------------------------------------------
(* The task store: a function from the ids of the stored documents to the  *)
(* documents.  Ids are allocated in increasing order and never reused.     *)

Task(id, u, title, desc, status, type, deadline, created) ==
    [_id |-> id, user_id |-> u, taskTitle |-> title, taskDescription |-> desc,
     taskStatus |-> status, type |-> type, taskDeadline |-> deadline,
     createdAt |-> created]

(* Task.findById(id): the document, or nothing *)
FindById(store, id) == IF id \in DOMAIN store THEN {store[id]} ELSE {}

(* removal of the documents whose ids are in gone *)
Without(store, gone) == [i \in (DOMAIN store) \ gone |-> store[i]]

(* natural order of the collection: ascending id *)
RECURSIVE InIdOrder(_)
InIdOrder(S) ==
    IF S = {} THEN <<>>
    ELSE LET m == CHOOSE x \in S : \A y \in S : x._id <= y._id
         IN <<m>> \o InIdOrder(S \ {m})

Range(seq) == {seq[i] : i \in 1..Len(seq)}

---------------------------------------------------------------------------
(* Responses.  code is the name of the STATUS_CODES entry, title the kind  *)
(* the error handler adds ("" when the handler answers by itself), data    *)
(* the tasks in the body, deletedCount the count in the body when there is *)
(* one, summary the dashboard's figures.  Beside the answer the record     *)
(* keeps what the handler sent to the store: dbCalls the storage calls in  *)
(* order, query the filter of its find or deleteMany and sort the sort     *)
(* specification, when it issued one.                                      *)

NoSummary ==
    [activeTasksCount |-> 0, completedTasksCount |-> 0, overdueTasksCount |-> 0,
     tasksOverdue |-> <<>>, todayTasks |-> <<>>,
     progressChart |-> [pending |-> 0, inProgress |-> 0, completed |-> 0]]

Response(code, title, message, data, deleted, calls) ==
    [code |-> code, title |-> title, message |-> message, data |-> data,
     deletedCount |-> deleted, dbCalls |-> calls,
     query |-> {}, sort |-> {}, summary |-> NoSummary]

NoResponse == Response("none", "", "", <<>>, {}, <<>>)

Success(code, message, data, calls) == Response(code, "", message, data, {}, calls)

(* JSON null *)
Null == "null"

(* an Error object; stack is Undefined for a thrown value that has none *)
Err(message, stack) == [message |-> message, stack |-> stack]

(* Variant: the stack is sent whatever the environment *)
errorJsonExposeStack(resStatus, err, nodeEnv) ==
    LET statusCode == IF resStatus = "OK" THEN "INTERNAL_SERVER_ERROR" ELSE resStatus
        title == CASE statusCode = "VALIDATION_ERROR" -> "Validation Error"
                   [] statusCode = "UNAUTHORIZED" -> "Unauthorized"
                   [] statusCode = "FORBIDDEN" -> "Forbidden"
                   [] statusCode = "NOT_FOUND" -> "Not Found"
                   [] statusCode = "INTERNAL_SERVER_ERROR" -> "Server Error"
                   [] OTHER -> "Error"
    IN [code |-> statusCode, title |-> title, message |-> err.message,
        stack |-> err.stack]

(* Variant: the status is answered as it stands, also when none was set *)
errorJsonKeepStatus(resStatus, err, nodeEnv) ==
    LET statusCode == resStatus
        title == CASE statusCode = "VALIDATION_ERROR" -> "Validation Error"
                   [] statusCode = "UNAUTHORIZED" -> "Unauthorized"
                   [] statusCode = "FORBIDDEN" -> "Forbidden"
                   [] statusCode = "NOT_FOUND" -> "Not Found"
                   [] statusCode = "INTERNAL_SERVER_ERROR" -> "Server Error"
                   [] OTHER -> "Error"
    IN [code |-> statusCode, title |-> title, message |-> err.message,
        stack |-> IF nodeEnv = "production" THEN Null ELSE err.stack]

(* errorHandler: the status and the JSON body answered for a thrown error, *)
(* from res.statusCode as the handler left it and process.env.NODE_ENV     *)
errorJson(resStatus, err, nodeEnv) ==
    LET statusCode == IF resStatus = "OK" THEN "INTERNAL_SERVER_ERROR" ELSE resStatus
        title == CASE statusCode = "VALIDATION_ERROR" -> "Validation Error"
                   [] statusCode = "UNAUTHORIZED" -> "Unauthorized"
                   [] statusCode = "FORBIDDEN" -> "Forbidden"
                   [] statusCode = "NOT_FOUND" -> "Not Found"
                   [] statusCode = "INTERNAL_SERVER_ERROR" -> "Server Error"
                   [] OTHER -> "Error"
    IN [code |-> statusCode, title |-> title, message |-> err.message,
        stack |-> IF nodeEnv = "production" THEN Null ELSE err.stack]

(* errorHandler as the task handlers meet it: status, title and message of *)
(* the answer to a thrown error                                            *)
errorHandler(resStatus, message, calls) ==
    LET json == errorJson(resStatus, Err(message, Undefined), Undefined)
    IN Response(json.code, json.title, json.message, <<>>, {}, calls)

IsError(r) == r.code \in {"VALIDATION_ERROR", "UNAUTHORIZED", "FORBIDDEN",
                          "NOT_FOUND", "INTERNAL_SERVER_ERROR"}

---------------------------------------------------------------------------
(* validateAndBuildFields: the fields to $set, or the error thrown *)

NoFields == [taskTitle |-> {}, taskDescription |-> {}, taskDeadline |-> {},
             taskStatus |-> {}, type |-> {}]

(* a request body; user_id is a field the handlers never read *)
Body(title, description, status, type, deadline) ==
    [title |-> title, description |-> description, status |-> status,
     type |-> type, deadline |-> deadline, user_id |-> Undefined]

(* Variant: the upper bounds of the two lengths are not checked *)
validateAndBuildFieldsNoMax(body, now) ==
    LET titleBad == TruthyStr(body.title) /\ TrimStr(body.title).len < TitleMin
        dlMalformed == body.deadline.kind = "malformed"
        dlPast == body.deadline.kind = "date" /\ body.deadline.at <= now
        statusBad == Truthy(body.status) /\ body.status \notin VALID_STATUS
        typeBad == Truthy(body.type) /\ body.type \notin VALID_TYPE
        message ==
            CASE titleBad -> "Task title must be between 2 and 25 characters"
              [] dlMalformed -> "Invalid date format for deadline"
              [] dlPast -> "Deadline must be a future date"
              [] statusBad -> "Invalid status value"
              [] typeBad -> "Invalid type value"
              [] OTHER -> ""
    IN [ok |-> message = "",
        message |-> message,
        fields |->
          [taskTitle |-> IF TruthyStr(body.title)
                         THEN {TrimStr(body.title)} ELSE {},
           taskDescription |-> IF TruthyStr(body.description)
                               THEN {TrimStr(body.description)} ELSE {},
           taskDeadline |-> IF body.deadline.kind = "date"
                            THEN {body.deadline.at} ELSE {},
           taskStatus |-> IF Truthy(body.status) THEN {body.status} ELSE {},
           type |-> IF Truthy(body.type) THEN {body.type} ELSE {}]]

validateAndBuildFields(body, now) ==
    LET titleBad == TruthyStr(body.title)
                    /\ (TrimStr(body.title).len < TitleMin
                        \/ TrimStr(body.title).len > TitleMax)
        descBad == TruthyStr(body.description)
                   /\ TrimStr(body.description).len > DescMax
        dlMalformed == body.deadline.kind = "malformed"
        dlPast == body.deadline.kind = "date" /\ body.deadline.at <= now
        statusBad == Truthy(body.status) /\ body.status \notin VALID_STATUS
        typeBad == Truthy(body.type) /\ body.type \notin VALID_TYPE
        message ==
            CASE titleBad -> "Task title must be between 2 and 25 characters"
              [] descBad -> "Task description must be less than 100 characters"
              [] dlMalformed -> "Invalid date format for deadline"
              [] dlPast -> "Deadline must be a future date"
              [] statusBad -> "Invalid status value"
              [] typeBad -> "Invalid type value"
              [] OTHER -> ""
    IN [ok |-> message = "",
        message |-> message,
        fields |->
          [taskTitle |-> IF TruthyStr(body.title)
                         THEN {TrimStr(body.title)} ELSE {},
           taskDescription |-> IF TruthyStr(body.description)
                               THEN {TrimStr(body.description)} ELSE {},
           taskDeadline |-> IF body.deadline.kind = "date"
                            THEN {body.deadline.at} ELSE {},
           taskStatus |-> IF Truthy(body.status) THEN {body.status} ELSE {},
           type |-> IF Truthy(body.type) THEN {body.type} ELSE {}]]

(* The schema's setter on the two text paths (trim: true) *)
SchemaTrim(s) == TrimStr(s)

(* The schema's validators on the paths that are written (taskModel.js),   *)
(* run on the values the setters leave                                     *)
SchemaValid(fields) ==
    /\ \A t \in fields.taskTitle :
         SchemaTrim(t).len >= SchemaTitleMin /\ SchemaTrim(t).len <= SchemaTitleMax
    /\ \A t \in fields.taskDescription :
         SchemaTrim(t).len >= SchemaDescMin /\ SchemaTrim(t).len <= SchemaDescMax
    /\ fields.taskStatus \subseteq VALID_STATUS
    /\ fields.type \subseteq VALID_TYPE

(* Variant: a text or deadline path that is not among the built fields is  *)
(* cleared, as a replacement of the document would                         *)
SetFieldsClearing(task, fields) ==
    [task EXCEPT
       !.taskTitle = IF fields.taskTitle = {} THEN @
                     ELSE SchemaTrim(CHOOSE t \in fields.taskTitle : TRUE),
       !.taskDescription = {SchemaTrim(t) : t \in fields.taskDescription},
       !.taskDeadline = fields.taskDeadline,
       !.taskStatus = IF fields.taskStatus = {} THEN @
                      ELSE CHOOSE x \in fields.taskStatus : TRUE,
       !.type = IF fields.type = {} THEN @ ELSE CHOOSE x \in fields.type : TRUE]

(* $set of the built fields on a document *)
SetFields(task, fields) ==
    [task EXCEPT
       !.taskTitle = IF fields.taskTitle = {} THEN @
                     ELSE SchemaTrim(CHOOSE t \in fields.taskTitle : TRUE),
       !.taskDescription = IF fields.taskDescription = {} THEN @
                           ELSE {SchemaTrim(t) : t \in fields.taskDescription},
       !.taskDeadline = IF fields.taskDeadline = {} THEN @ ELSE fields.taskDeadline,
       !.taskStatus = IF fields.taskStatus = {} THEN @
                      ELSE CHOOSE x \in fields.taskStatus : TRUE,
       !.type = IF fields.type = {} THEN @ ELSE CHOOSE x \in fields.type : TRUE]

---------------------------------------------------------------------------
(* verifyTaskOwnership: the task, or the status set and the error thrown *)

(* Variant: the guard only checks that the task exists *)
verifyTaskExists(store, taskId, userId) ==
    LET found == FindById(store, taskId)
    IN IF found = {}
       THEN [ok |-> FALSE, status |-> "NOT_FOUND", message |-> "Task not found",
             task |-> {}]
       ELSE [ok |-> TRUE, status |-> "OK", message |-> "", task |-> found]

verifyTaskOwnership(store, taskId, userId) ==
    LET found == FindById(store, taskId)
    IN IF found = {}
       THEN [ok |-> FALSE, status |-> "NOT_FOUND", message |-> "Task not found",
             task |-> {}]
       ELSE IF \E t \in found : t.user_id # userId
       THEN [ok |-> FALSE, status |-> "FORBIDDEN",
             message |-> "User not authorized to update this task", task |-> {}]
       ELSE [ok |-> TRUE, status |-> "OK", message |-> "", task |-> found]

---------------------------------------------------------------------------
(* Filters and sort specifications.  A filter names, for each path it     *)
(* constrains, the value required; an empty set leaves the path free.      *)

Filter(userId, type, statusOp, statusVal) ==
    [user_id |-> userId, type |-> type,
     taskStatus |-> [op |-> statusOp, val |-> statusVal]]

Matches(task, filter) ==
    /\ filter.user_id = {} \/ task.user_id \in filter.user_id
    /\ filter.type = {} \/ task.type \in filter.type
    /\ CASE filter.taskStatus.op = "eq" -> task.taskStatus = filter.taskStatus.val
         [] filter.taskStatus.op = "ne" -> task.taskStatus # filter.taskStatus.val
         [] OTHER -> TRUE

(* Task.find(filter): the matching documents *)
Find(store, filter) == {store[i] : i \in {j \in DOMAIN store : Matches(store[j], filter)}}

sortFieldMap(key) ==
    CASE key = "deadline" -> "taskDeadline"
      [] key = "createdAt" -> "createdAt"
      [] OTHER -> Undefined

(* Variant: the leading dash is dropped and the direction is always ascending *)
SortCriteriaAscending(sort) ==
    LET normalizedSortKey == IF Truthy(sort) THEN ReplaceDash(sort) ELSE Undefined
        mappedSortKey == IF Truthy(normalizedSortKey)
                         THEN sortFieldMap(normalizedSortKey) ELSE Undefined
    IN IF Truthy(mappedSortKey)
       THEN [field |-> mappedSortKey, dir |-> 1]
       ELSE [field |-> "createdAt", dir |-> 1]

SortCriteria(sort) ==
    LET normalizedSortKey == IF Truthy(sort) THEN ReplaceDash(sort) ELSE Undefined
        mappedSortKey == IF Truthy(normalizedSortKey)
                         THEN sortFieldMap(normalizedSortKey) ELSE Undefined
    IN IF Truthy(mappedSortKey)
       THEN [field |-> mappedSortKey, dir |-> IF StartsWithDash(sort) THEN -1 ELSE 1]
       ELSE [field |-> "createdAt", dir |-> 1]

(* the store's order on a sort field: a missing deadline sorts before any date *)
KeyLess(a, b, field) ==
    IF field = "createdAt" THEN a.createdAt < b.createdAt
    ELSE \/ a.taskDeadline = {} /\ b.taskDeadline # {}
         \/ \E x \in a.taskDeadline : \E y \in b.taskDeadline : x < y

Ordered(seq, criteria) ==
    \A i, j \in 1..Len(seq) :
        i < j => IF criteria.dir = 1
                 THEN ~KeyLess(seq[j], seq[i], criteria.field)
                 ELSE ~KeyLess(seq[i], seq[j], criteria.field)

(* .sort(criteria): every listing of S the criteria allow (ties in any order) *)
Sortings(S, criteria) ==
    {seq \in [1..Cardinality(S) -> S] :
        Range(seq) = S /\ Ordered(seq, criteria)}

---------------------------------------------------------------------------
(* getTasks *)

(* Variant: the sort parameter is not validated *)
getTasksCheckNoSort(type, status, sort) ==
    CASE Truthy(type) /\ type \notin VALID_TYPE ->
           "Invalid type value. Valid values are \"work\" or \"personal\"."
      [] Truthy(status) /\ status \notin VALID_STATUS ->
           "Invalid status value."
      [] OTHER -> ""

getTasksCheck(type, status, sort) ==
    CASE Truthy(type) /\ type \notin VALID_TYPE ->
           "Invalid type value. Valid values are \"work\" or \"personal\"."
      [] Truthy(status) /\ status \notin VALID_STATUS ->
           "Invalid status value."
      [] Truthy(sort) /\ sort \notin validSortOptions ->
           "Invalid sort value."
      [] OTHER -> ""

(* Variant: the query is not restricted to the requester *)
getTasksQueryAnyOwner(userId, type, status) ==
    Filter({},
           IF Truthy(type) THEN {type} ELSE {},
           IF Truthy(status) THEN "eq" ELSE "ne",
           IF Truthy(status) THEN status ELSE "completed")

(* Variant: without a status the query leaves the status free *)
getTasksQueryNoDefault(userId, type, status) ==
    Filter({userId},
           IF Truthy(type) THEN {type} ELSE {},
           IF Truthy(status) THEN "eq" ELSE "any",
           IF Truthy(status) THEN status ELSE Undefined)

getTasksQuery(userId, type, status) ==
    Filter({userId},
           IF Truthy(type) THEN {type} ELSE {},
           IF Truthy(status) THEN "eq" ELSE "ne",
           IF Truthy(status) THEN status ELSE "completed")

(* the answers getTasks can give *)
getTasks(store, userId, type, status, sort) ==
    LET rejected == getTasksCheck(type, status, sort)
        query == getTasksQuery(userId, type, status)
        sortCriteria == SortCriteria(sort)
    IN IF rejected # ""
       THEN {errorHandler("VALIDATION_ERROR", rejected, <<>>)}
       ELSE {[Success("OK", "Tasks retrieved successfully", data, <<"find">>)
                EXCEPT !.query = {query}, !.sort = {sortCriteria}] :
               data \in Sortings(Find(store, query), sortCriteria)}

---------------------------------------------------------------------------
(* The mutating handlers.  Each yields the store and the answer it leaves. *)

Outcome(store, response) == [store |-> store, resp |-> response]

(* Variant: the schema gives a new document no default status *)
createTaskNoDefault(store, id, userId, body, now) ==
    LET built == validateAndBuildFields(
                     Body(body.title, body.description, Undefined, body.type,
                          body.deadline), now)
        doc == SetFields(Task(id, userId, AbsentStr, {}, Undefined, Undefined, {}, now),
                         built.fields)
    IN IF ~TruthyStr(body.title) \/ TrimStr(body.title).len = 0
       THEN Outcome(store, errorHandler("VALIDATION_ERROR", "Task title is required", <<>>))
       ELSE IF ~Truthy(body.type) \/ body.type \notin VALID_TYPE
       THEN Outcome(store, errorHandler("VALIDATION_ERROR", "Invalid type value.", <<>>))
       ELSE IF ~built.ok
       THEN Outcome(store, errorHandler("OK", built.message, <<>>))
       ELSE IF ~SchemaValid(built.fields)
       THEN Outcome(store, errorHandler("OK", "Task validation failed", <<"create">>))
       ELSE Outcome([i \in DOMAIN store \cup {id} |-> IF i = id THEN doc ELSE store[i]],
                    Success("CREATED", "Task created successfully", <<doc>>,
                            <<"create">>))

(* Variant: the document is created from the whole body, so that a status  *)
(* or an owner sent in it is stored                                        *)
createTaskFromBody(store, id, userId, body, now) ==
    LET built == validateAndBuildFields(body, now)
        doc == SetFields(Task(id, IF Truthy(body.user_id) THEN body.user_id ELSE userId,
                              AbsentStr, {}, "pending", Undefined, {}, now),
                         built.fields)
    IN IF ~TruthyStr(body.title) \/ TrimStr(body.title).len = 0
       THEN Outcome(store, errorHandler("VALIDATION_ERROR", "Task title is required", <<>>))
       ELSE IF ~Truthy(body.type) \/ body.type \notin VALID_TYPE
       THEN Outcome(store, errorHandler("VALIDATION_ERROR", "Invalid type value.", <<>>))
       ELSE IF ~built.ok
       THEN Outcome(store, errorHandler("OK", built.message, <<>>))
       ELSE IF ~SchemaValid(built.fields)
       THEN Outcome(store, errorHandler("OK", "Task validation failed", <<"create">>))
       ELSE Outcome([i \in DOMAIN store \cup {id} |-> IF i = id THEN doc ELSE store[i]],
                    Success("CREATED", "Task created successfully", <<doc>>,
                            <<"create">>))

(* createTask *)
createTask(store, id, userId, body, now) ==
    LET built == validateAndBuildFields(
                     Body(body.title, body.description, Undefined, body.type,
                          body.deadline), now)
        doc == SetFields(Task(id, userId, AbsentStr, {}, "pending", Undefined, {}, now),
                         built.fields)
    IN IF ~TruthyStr(body.title) \/ TrimStr(body.title).len = 0
       THEN Outcome(store, errorHandler("VALIDATION_ERROR", "Task title is required", <<>>))
       ELSE IF ~Truthy(body.type) \/ body.type \notin VALID_TYPE
       THEN Outcome(store, errorHandler("VALIDATION_ERROR", "Invalid type value.", <<>>))
       ELSE IF ~built.ok
       THEN Outcome(store, errorHandler("OK", built.message, <<>>))
       ELSE IF ~SchemaValid(built.fields)
       THEN Outcome(store, errorHandler("OK", "Task validation failed", <<"create">>))
       ELSE Outcome([i \in DOMAIN store \cup {id} |-> IF i = id THEN doc ELSE store[i]],
                    Success("CREATED", "Task created successfully", <<doc>>,
                            <<"create">>))

(* Variant: the lookup is by id alone *)
getTaskByIdAnyOwner(store, id, userId) ==
    LET found == FindById(store, id)
    IN IF found = {}
       THEN Outcome(store, errorHandler("NOT_FOUND", "Task not found", <<"findOne">>))
       ELSE Outcome(store, Success("OK", "Task retrieved successfully",
                                   InIdOrder(found), <<"findOne">>))

(* getTaskById *)
getTaskById(store, id, userId) ==
    LET found == {t \in FindById(store, id) : t.user_id = userId}
    IN IF found = {}
       THEN Outcome(store, errorHandler("NOT_FOUND", "Task not found", <<"findOne">>))
       ELSE Outcome(store, Success("OK", "Task retrieved successfully",
                                   InIdOrder(found), <<"findOne">>))

(* Task.findByIdAndUpdate(id, {$set: fields}, {new: true, runValidators: true}) *)
FindByIdAndUpdate(store, id, fields) ==
    [i \in DOMAIN store |-> IF i = id THEN SetFields(store[i], fields) ELSE store[i]]

(* Variant: the schema's validators fail after the document was written *)
updateTaskWriteFirst(store, id, userId, body, now) ==
    LET owned == verifyTaskOwnership(store, id, userId)
        built == validateAndBuildFields(body, now)
        after == FindByIdAndUpdate(store, id, built.fields)
    IN IF ~owned.ok
       THEN Outcome(store, errorHandler(owned.status, owned.message, <<"findById">>))
       ELSE IF ~built.ok
       THEN Outcome(store, errorHandler("OK", built.message, <<"findById">>))
       ELSE IF ~SchemaValid(built.fields)
       THEN Outcome(after, errorHandler("OK", "Validation failed",
                                        <<"findById", "findByIdAndUpdate">>))
       ELSE Outcome(after, Success("OK", "Task updated successfully",
                                   InIdOrder(FindById(after, id)),
                                   <<"findById", "findByIdAndUpdate">>))

(* Variant: PUT resets the status of a task whose body names none *)
updateTaskResetting(store, id, userId, body, now) ==
    LET owned == verifyTaskOwnership(store, id, userId)
        built == validateAndBuildFields(body, now)
        fields == IF built.fields.taskStatus = {}
                  THEN [built.fields EXCEPT !.taskStatus = {"pending"}]
                  ELSE built.fields
        after == FindByIdAndUpdate(store, id, fields)
    IN IF ~owned.ok
       THEN Outcome(store, errorHandler(owned.status, owned.message, <<"findById">>))
       ELSE IF ~built.ok
       THEN Outcome(store, errorHandler("OK", built.message, <<"findById">>))
       ELSE IF ~SchemaValid(built.fields)
       THEN Outcome(store, errorHandler("OK", "Validation failed",
                                        <<"findById", "findByIdAndUpdate">>))
       ELSE Outcome(after, Success("OK", "Task updated successfully",
                                   InIdOrder(FindById(after, id)),
                                   <<"findById", "findByIdAndUpdate">>))

(* updateTask (PUT) *)
updateTask(store, id, userId, body, now) ==
    LET owned == verifyTaskOwnership(store, id, userId)
        built == validateAndBuildFields(body, now)
        after == FindByIdAndUpdate(store, id, built.fields)
    IN IF ~owned.ok
       THEN Outcome(store, errorHandler(owned.status, owned.message, <<"findById">>))
       ELSE IF ~built.ok
       THEN Outcome(store, errorHandler("OK", built.message, <<"findById">>))
       ELSE IF ~SchemaValid(built.fields)
       THEN Outcome(store, errorHandler("OK", "Validation failed",
                                        <<"findById", "findByIdAndUpdate">>))
       ELSE Outcome(after, Success("OK", "Task updated successfully",
                                   InIdOrder(FindById(after, id)),
                                   <<"findById", "findByIdAndUpdate">>))

(* partialUpdateTask (PATCH) *)
partialUpdateTask(store, id, userId, body, now) ==
    LET owned == verifyTaskOwnership(store, id, userId)
        built == validateAndBuildFields(body, now)
        after == FindByIdAndUpdate(store, id, built.fields)
    IN IF ~owned.ok
       THEN Outcome(store, errorHandler(owned.status, owned.message, <<"findById">>))
       ELSE IF ~built.ok
       THEN Outcome(store, errorHandler("OK", built.message, <<"findById">>))
       ELSE IF ~SchemaValid(built.fields)
       THEN Outcome(store, errorHandler("OK", "Validation failed",
                                        <<"findById", "findByIdAndUpdate">>))
       ELSE Outcome(after, Success("OK", "Task partially updated successfully",
                                   InIdOrder(FindById(after, id)),
                                   <<"findById", "findByIdAndUpdate">>))

(* Variant: the status parameter is left out of the filter *)
deleteAllFilterNoStatus(userId, type, status) ==
    Filter({userId}, IF Truthy(type) THEN {Trim(type)} ELSE {}, "any", Undefined)

(* the filter deleteAllTasks hands to deleteMany *)
deleteAllFilter(userId, type, status) ==
    Filter({userId},
           IF Truthy(type) THEN {Trim(type)} ELSE {},
           IF Truthy(status) THEN "eq" ELSE "any",
           IF Truthy(status) THEN Trim(status) ELSE Undefined)

(* deleteAllTasks *)
deleteAllTasks(store, userId, type, status) ==
    LET own == Find(store, Filter({userId}, {}, "any", Undefined))
        filter == deleteAllFilter(userId, type, status)
        gone == Find(store, filter)
    IN IF own = {}
       THEN Outcome(store, Success("OK", "No tasks to delete", <<>>, <<"find">>))
       ELSE IF Truthy(status) /\ status \notin VALID_STATUS
       THEN Outcome(store, Response("VALIDATION_ERROR", "", "Invalid status.",
                                    <<>>, {}, <<"find">>))
       ELSE Outcome(Without(store, {t._id : t \in gone}),
                    [Response("OK", "", "Deleted task(s)", <<>>,
                              {Cardinality(gone)}, <<"find", "deleteMany">>)
                       EXCEPT !.query = {filter}])

(* Variant: delete by id without looking at the owner *)
deleteTaskAnyOwner(store, id, userId) ==
    IF FindById(store, id) = {}
    THEN Outcome(store, errorHandler("NOT_FOUND", "Task not found", <<"findById">>))
    ELSE Outcome(Without(store, {id}),
                 Success("OK", "Task deleted successfully", <<>>,
                         <<"findById", "deleteOne">>))

(* deleteTask *)
deleteTask(store, id, userId) ==
    LET found == FindById(store, id)
    IN IF found = {}
       THEN Outcome(store, errorHandler("NOT_FOUND", "Task not found", <<"findById">>))
       ELSE IF \E t \in found : t.user_id # userId
       THEN Outcome(store, errorHandler("FORBIDDEN",
                                        "User not authorized to delete this task",
                                        <<"findById">>))
       ELSE Outcome(Without(store, {id}),
                    Success("OK", "Task deleted successfully", <<>>,
                            <<"findById", "deleteOne">>))

---------------------------------------------------------------------------
(* dashboard *)

(* new Date(y, m, d) of an instant: midnight at the start of its day *)
Midnight(t) == (t \div DayLen) * DayLen

(* getFullYear, getMonth and getDate all equal *)
SameDate(a, b) == a \div DayLen = b \div DayLen

CountWhere(seq, status) == Cardinality({i \in 1..Len(seq) : seq[i].taskStatus = status})

(* Variant: only pending tasks count as active *)
dashboardStepPendingOnly(acc, task, today) ==
    LET counted ==
            IF task.taskStatus = "pending"
            THEN [acc EXCEPT !.activeTasksCount = @ + 1]
            ELSE IF task.taskStatus = "completed"
            THEN [acc EXCEPT !.completedTasksCount = @ + 1]
            ELSE acc
        overdue ==
            IF /\ task.taskDeadline # {}
               /\ \A d \in task.taskDeadline : d < today
               /\ task.taskStatus # "completed"
            THEN [counted EXCEPT !.overdueTasksCount = @ + 1,
                                 !.tasksOverdue = Append(@, task)]
            ELSE counted
    IN IF /\ task.taskDeadline # {}
          /\ \A d \in task.taskDeadline : SameDate(d, today)
       THEN [overdue EXCEPT !.todayTasks = Append(@, task)]
       ELSE overdue

(* Variant: a deadline at midnight of the reference day counts as overdue *)
dashboardStepOverdueAtMidnight(acc, task, today) ==
    LET counted ==
            IF task.taskStatus = "pending" \/ task.taskStatus = "in-progress"
            THEN [acc EXCEPT !.activeTasksCount = @ + 1]
            ELSE IF task.taskStatus = "completed"
            THEN [acc EXCEPT !.completedTasksCount = @ + 1]
            ELSE acc
        overdue ==
            IF /\ task.taskDeadline # {}
               /\ \A d \in task.taskDeadline : d <= today
               /\ task.taskStatus # "completed"
            THEN [counted EXCEPT !.overdueTasksCount = @ + 1,
                                 !.tasksOverdue = Append(@, task)]
            ELSE counted
    IN IF /\ task.taskDeadline # {}
          /\ \A d \in task.taskDeadline : SameDate(d, today)
       THEN [overdue EXCEPT !.todayTasks = Append(@, task)]
       ELSE overdue

(* Variant: a task past its deadline is overdue whatever its status *)
dashboardStepOverdueAnyStatus(acc, task, today) ==
    LET counted ==
            IF task.taskStatus = "pending" \/ task.taskStatus = "in-progress"
            THEN [acc EXCEPT !.activeTasksCount = @ + 1]
            ELSE IF task.taskStatus = "completed"
            THEN [acc EXCEPT !.completedTasksCount = @ + 1]
            ELSE acc
        overdue ==
            IF /\ task.taskDeadline # {}
               /\ \A d \in task.taskDeadline : d < today
            THEN [counted EXCEPT !.overdueTasksCount = @ + 1,
                                 !.tasksOverdue = Append(@, task)]
            ELSE counted
    IN IF /\ task.taskDeadline # {}
          /\ \A d \in task.taskDeadline : SameDate(d, today)
       THEN [overdue EXCEPT !.todayTasks = Append(@, task)]
       ELSE overdue

(* one pass of the loop body over a task *)
dashboardStep(acc, task, today) ==
    LET counted ==
            IF task.taskStatus = "pending" \/ task.taskStatus = "in-progress"
            THEN [acc EXCEPT !.activeTasksCount = @ + 1]
            ELSE IF task.taskStatus = "completed"
            THEN [acc EXCEPT !.completedTasksCount = @ + 1]
            ELSE acc
        overdue ==
            IF /\ task.taskDeadline # {}
               /\ \A d \in task.taskDeadline : d < today
               /\ task.taskStatus # "completed"
            THEN [counted EXCEPT !.overdueTasksCount = @ + 1,
                                 !.tasksOverdue = Append(@, task)]
            ELSE counted
    IN IF /\ task.taskDeadline # {}
          /\ \A d \in task.taskDeadline : SameDate(d, today)
       THEN [overdue EXCEPT !.todayTasks = Append(@, task)]
       ELSE overdue

RECURSIVE dashboardLoop(_, _, _, _)
dashboardLoop(acc, list, i, today) ==
    IF i > Len(list) THEN acc
    ELSE dashboardLoop(dashboardStep(acc, list[i], today), list, i + 1, today)

(* Variant: the progress chart counts the whole list *)
summarizeChartOfAll(list, now) ==
    LET looped == dashboardLoop(NoSummary, list, 1, Midnight(now))
    IN [looped EXCEPT !.progressChart =
           [pending |-> CountWhere(list, "pending"),
            inProgress |-> CountWhere(list, "in-progress"),
            completed |-> CountWhere(list, "completed")]]

(* Variant: the counters and lists live outside the handler and are carried *)
(* over from the previous answer                                            *)
summarizeCarried(list, now) ==
    LET looped == dashboardLoop(resp.summary, list, 1, Midnight(now))
    IN [looped EXCEPT !.progressChart =
           [pending |-> CountWhere(looped.todayTasks, "pending"),
            inProgress |-> CountWhere(looped.todayTasks, "in-progress"),
            completed |-> CountWhere(looped.todayTasks, "completed")]]

(* the summary and the progress chart of a task list at an instant *)
summarize(list, now) ==
    LET looped == dashboardLoop(NoSummary, list, 1, Midnight(now))
    IN [looped EXCEPT !.progressChart =
           [pending |-> CountWhere(looped.todayTasks, "pending"),
            inProgress |-> CountWhere(looped.todayTasks, "in-progress"),
            completed |-> CountWhere(looped.todayTasks, "completed")]]

(* Variant: the query is scoped to the owner alone *)
dashboardQueryAnyType(userId, type) == Filter({userId}, {}, "any", Undefined)

dashboardQuery(userId, type) ==
    Filter({userId},
           IF Truthy(type) /\ type # "all" THEN {Trim(type)} ELSE {},
           "any", Undefined)

(* Variant: the type parameter is not checked *)
dashboardUnchecked(store, userId, typeParam, now) ==
    LET type == IF Truthy(typeParam) THEN ToLowerCase(typeParam) ELSE "all"
        query == dashboardQuery(userId, type)
        list == InIdOrder(Find(store, query))
    IN [Success("OK", type, <<>>, <<"find">>)
          EXCEPT !.query = {query}, !.summary = summarize(list, now)]

dashboard(store, userId, typeParam, now) ==
    LET type == IF Truthy(typeParam) THEN ToLowerCase(typeParam) ELSE "all"
        query == dashboardQuery(userId, type)
        list == InIdOrder(Find(store, query))
    IN IF Truthy(type) /\ type \notin validTypes
       THEN errorHandler("VALIDATION_ERROR", "Invalid type parameter provided", <<>>)
       ELSE [Success("OK", type, <<>>, <<"find">>)
               EXCEPT !.query = {query}, !.summary = summarize(list, now)]

---------------------------------------------------------------------------
(* The digest job (checkAndSendDeadlineNotifications).  accounts gives for *)
(* every user id what populate('user_id', 'email username') finds: a user  *)
(* record with an email, one without, or none.  digest is the run: pc its  *)
(* position, failed whether the query threw, sends the promises of         *)
(* sendDeadlineReminder in the order they were pushed, each with its       *)
(* recipient, its task list and how it settled, logged the number of       *)
(* errors written to the console, raised whether the job let an error out. *)

AccountKinds == {"email", "noemail", "missing"}

NoAccounts == [u \in Users |-> "email"]

NoDigest == [pc |-> "idle", failed |-> FALSE, sends |-> <<>>, logged |-> 0,
             raised |-> FALSE]

(* Task.find({taskDeadline: {$gte: today, $lt: tomorrow},                  *)
(*            taskStatus: {$ne: 'completed'}})                             *)
tasksDueToday(store, now) ==
    LET today == Midnight(now)
        tomorrow == today + DayLen
    IN InIdOrder({t \in Range(store) :
                     /\ \E d \in t.taskDeadline : d >= today /\ d < tomorrow
                     /\ t.taskStatus # "completed"})

(* Variant: a task due on the day it was created is not skipped *)
RECURSIVE groupLoopNoSameDaySkip(_, _, _, _)
groupLoopNoSameDaySkip(groups, due, i, accts) ==
    IF i > Len(due) THEN groups
    ELSE LET task == due[i]
             skip == accts[task.user_id] # "email"
             at == {k \in 1..Len(groups) : groups[k].user = task.user_id}
         IN IF skip THEN groupLoopNoSameDaySkip(groups, due, i + 1, accts)
            ELSE IF at = {}
            THEN groupLoopNoSameDaySkip(
                     Append(groups, [user |-> task.user_id, tasks |-> <<task>>]),
                     due, i + 1, accts)
            ELSE groupLoopNoSameDaySkip(
                     [k \in 1..Len(groups) |->
                        IF k \in at
                        THEN [groups[k] EXCEPT !.tasks = Append(@, task)]
                        ELSE groups[k]],
                     due, i + 1, accts)

(* Variant: every task opens a group of its own *)
RECURSIVE groupLoopPerTask(_, _, _, _)
groupLoopPerTask(groups, due, i, accts) ==
    IF i > Len(due) THEN groups
    ELSE LET task == due[i]
             skip == \/ accts[task.user_id] # "email"
                     \/ \E d \in task.taskDeadline : SameDate(d, task.createdAt)
         IN IF skip THEN groupLoopPerTask(groups, due, i + 1, accts)
            ELSE groupLoopPerTask(
                     Append(groups, [user |-> task.user_id, tasks |-> <<task>>]),
                     due, i + 1, accts)

(* the grouping loop: tasksByUser after the tasks due[i..] *)
RECURSIVE groupLoop(_, _, _, _)
groupLoop(groups, due, i, accts) ==
    IF i > Len(due) THEN groups
    ELSE LET task == due[i]
             skip == \/ accts[task.user_id] # "email"
                     \/ \E d \in task.taskDeadline : SameDate(d, task.createdAt)
             at == {k \in 1..Len(groups) : groups[k].user = task.user_id}
         IN IF skip THEN groupLoop(groups, due, i + 1, accts)
            ELSE IF at = {}
            THEN groupLoop(Append(groups, [user |-> task.user_id, tasks |-> <<task>>]),
                           due, i + 1, accts)
            ELSE groupLoop([k \in 1..Len(groups) |->
                              IF k \in at
                              THEN [groups[k] EXCEPT !.tasks = Append(@, task)]
                              ELSE groups[k]],
                           due, i + 1, accts)

tasksByUser(due, accts) == groupLoop(<<>>, due, 1, accts)

(* the loop over tasksByUser: one sendDeadlineReminder per entry *)
emailPromises(groups) ==
    [k \in 1..Len(groups) |->
        [to |-> groups[k].user, tasks |-> groups[k].tasks, outcome |-> "pending"]]

(* Variant: the sends are awaited one after the other without a catch, so  *)
(* the first failure leaves the job and the sends behind it are not made   *)
settleAbortOnFailure(d, k, outcome) ==
    IF outcome = "rejected"
    THEN [d EXCEPT !.sends = SubSeq(@, 1, k - 1) \o <<[@[k] EXCEPT !.outcome = outcome]>>,
                   !.pc = "done", !.raised = TRUE]
    ELSE [d EXCEPT !.sends[k].outcome = outcome]

(* a send settles: resolved, or rejected and caught by its .catch *)
settle(d, k, outcome) ==
    [d EXCEPT !.sends[k].outcome = outcome,
              !.logged = IF outcome = "rejected" THEN @ + 1 ELSE @]

---------------------------------------------------------------------------
(* Requests *)

NoBody == Body(AbsentStr, AbsentStr, Undefined, Undefined, NoDeadlineIn)

Request(op, u, id, type, status, sort) ==
    [op |-> op, user |-> u, id |-> id, type |-> type, status |-> status,
     sort |-> sort, body |-> NoBody]

NoRequest == Request("none", Undefined, 0, Undefined, Undefined, Undefined)

(* the values the requests of the model carry *)
TypeParams == {Undefined, "", "work", "personal", "invalid", " work "}

StatusParams == {Undefined, "", "pending", "in-progress", "completed", "done",
                 " completed "}

SortParams == {Undefined, "", "deadline", "-deadline", "createdAt", "-createdAt",
               "title", "-title"}

DashboardParams == {Undefined, "all", "work", "personal", "ALL", "invalid"}

(* <<type, status>> of the bulk deletes of the lifecycle *)
DeleteAllParams ==
    {<<Undefined, Undefined>>, <<"", "">>,
     <<Undefined, "completed">>, <<Undefined, "in-progress">>,
     <<"work", Undefined>>, <<"personal", "completed">>, <<"work", "pending">>,
     <<"invalid", Undefined>>, <<" work ", Undefined>>, <<" work ", "completed">>,
     <<Undefined, "done">>, <<"work", " completed ">>}

ValidTitle == Text(SchemaTitleMin, TRUE)

CreateBodies ==
    {Body(ValidTitle, AbsentStr, Undefined, ty, NoDeadlineIn) :
        ty \in {Undefined, "work", "personal", "invalid"}}
    \cup {Body(t, AbsentStr, Undefined, "work", NoDeadlineIn) :
        t \in {AbsentStr, Text(0, TRUE), Text(TitleMin, TRUE)}}
    \cup {Body(ValidTitle, AbsentStr, "completed", "personal", MalformedDeadline)}

UpdateBodies ==
    {Body(AbsentStr, AbsentStr, st, Undefined, NoDeadlineIn) :
        st \in {Undefined, "pending", "in-progress", "completed", "done"}}
    \cup {Body(AbsentStr, AbsentStr, Undefined, ty, NoDeadlineIn) :
        ty \in {"work", "personal", "invalid"}}
    \cup {Body(Text(TitleMin, FALSE), AbsentStr, "completed", Undefined, NoDeadlineIn)}

(* the bodies of the requests whose answer is compared with what was sent: *)
(* titles and descriptions at and around the bounds of the controller and  *)
(* of the schema, deadlines before, at and after the instant of the        *)
(* request, known and unknown statuses and types                           *)
WriteTitles ==
    {AbsentStr, Text(0, TRUE), Text(TitleMin - 1, FALSE), Text(TitleMin, FALSE),
     Text(SchemaTitleMin, TRUE), Text(TitleMax, FALSE), Text(TitleMax + 1, FALSE)}

WriteDescriptions ==
    {AbsentStr, Text(0, TRUE), Text(SchemaDescMin - 1, FALSE),
     Text(SchemaDescMin, TRUE), Text(DescMax, FALSE), Text(DescMax + 1, FALSE)}

WriteDeadlines ==
    {NoDeadlineIn, MalformedDeadline}
      \cup {DateIn(t) : t \in (MaxClock - 1)..(MaxClock + 1)}

WriteBodies ==
    {Body(t, d, Undefined, "work", NoDeadlineIn) :
        t \in WriteTitles, d \in WriteDescriptions}
    \cup {Body(t, AbsentStr, Undefined, "personal", dl) :
        t \in {AbsentStr, Text(TitleMin, FALSE), Text(SchemaTitleMin, FALSE),
               Text(TitleMax + 1, FALSE)},
        dl \in WriteDeadlines}
    \cup {Body(Text(SchemaTitleMin, FALSE), AbsentStr, st, ty, NoDeadlineIn) :
        st \in {Undefined, "completed", "done"}, ty \in {Undefined, "work", "invalid"}}
    \cup {[Body(Text(SchemaTitleMin, TRUE), Text(SchemaDescMin, TRUE), "completed",
                "personal", DateIn(MaxClock + 1)) EXCEPT !.user_id = o] : o \in Users}

---------------------------------------------------------------------------
(* Actions: one request handled from its arrival to its answer *)

Handled(op, u, id, type, status, sort, outcome) ==
    /\ tasks' = outcome.store
    /\ req' = Request(op, u, id, type, status, sort)
    /\ resp' = outcome.resp
    /\ UNCHANGED <<accounts, digest, inflight>>

GetTasks ==
    \E u \in Users, type \in TypeParams, status \in StatusParams, sort \in SortParams :
      \E answer \in getTasks(tasks, u, type, status, sort) :
        /\ Handled("getTasks", u, 0, type, status, sort, Outcome(tasks, answer))
        /\ UNCHANGED <<nextId, clock>>

CreateTask ==
    \E u \in Users, body \in CreateBodies :
      LET outcome == createTask(tasks, nextId, u, body, clock)
      IN /\ nextId <= MaxTasks
         /\ Handled("createTask", u, 0, Undefined, Undefined, Undefined, outcome)
         /\ nextId' = IF outcome.store = tasks THEN nextId ELSE nextId + 1
         /\ UNCHANGED clock

GetTaskById ==
    \E u \in Users, id \in Ids :
      /\ Handled("getTaskById", u, id, Undefined, Undefined, Undefined,
                 getTaskById(tasks, id, u))
      /\ UNCHANGED <<nextId, clock>>

UpdateTask ==
    \E u \in Users, id \in Ids, body \in UpdateBodies :
      /\ Handled("updateTask", u, id, Undefined, Undefined, Undefined,
                 updateTask(tasks, id, u, body, clock))
      /\ UNCHANGED <<nextId, clock>>

PartialUpdateTask ==
    \E u \in Users, id \in Ids, body \in UpdateBodies :
      /\ Handled("partialUpdateTask", u, id, Undefined, Undefined, Undefined,
                 partialUpdateTask(tasks, id, u, body, clock))
      /\ UNCHANGED <<nextId, clock>>

(* the same three handlers, the request keeping the body that was sent *)
Written(op, u, id, body, outcome) ==
    /\ tasks' = outcome.store
    /\ req' = [Request(op, u, id, Undefined, Undefined, Undefined) EXCEPT !.body = body]
    /\ resp' = outcome.resp
    /\ UNCHANGED <<accounts, digest, inflight>>

PostTask ==
    \E u \in Users, body \in WriteBodies :
      LET outcome == createTask(tasks, nextId, u, body, clock)
      IN /\ Written("createTask", u, 0, body, outcome)
         /\ nextId' = IF outcome.store = tasks THEN nextId ELSE nextId + 1
         /\ UNCHANGED clock

PutTask ==
    \E u \in Users, id \in Ids, body \in WriteBodies :
      /\ Written("updateTask", u, id, body, updateTask(tasks, id, u, body, clock))
      /\ UNCHANGED <<nextId, clock>>

PatchTask ==
    \E u \in Users, id \in Ids, body \in WriteBodies :
      /\ Written("partialUpdateTask", u, id, body,
                 partialUpdateTask(tasks, id, u, body, clock))
      /\ UNCHANGED <<nextId, clock>>

DeleteAllWith(params) ==
    \E u \in Users, p \in params :
      /\ Handled("deleteAllTasks", u, 0, p[1], p[2], Undefined,
                 deleteAllTasks(tasks, u, p[1], p[2]))
      /\ UNCHANGED <<nextId, clock>>

DeleteAllTasks == DeleteAllWith(DeleteAllParams)

DeleteTask ==
    \E u \in Users, id \in Ids :
      /\ Handled("deleteTask", u, id, Undefined, Undefined, Undefined,
                 deleteTask(tasks, id, u))
      /\ UNCHANGED <<nextId, clock>>

DashboardWith(params) ==
    \E u \in Users, type \in params :
      /\ Handled("dashboard", u, 0, type, Undefined, Undefined,
                 Outcome(tasks, dashboard(tasks, u, type, clock)))
      /\ UNCHANGED <<nextId, clock>>

Dashboard == DashboardWith(DashboardParams)

(* Requests served concurrently.  A handler runs to its first await, the   *)
(* lookup of the task, in one step and from there to its answer in a       *)
(* second; the steps of other requests may fall between the two.  A flight *)
(* is a request with its position (none, checked after the lookup and the  *)
(* checks behind it, answered), and once answered the status and message   *)
(* of the answer, the task in it and the number of documents its write     *)
(* matched.                                                                *)
Flight(pc, op, u, id, body, code, message, data, matched) ==
    [pc |-> pc, op |-> op, user |-> u, id |-> id, body |-> body, code |-> code,
     message |-> message, data |-> data, matched |-> matched]

NoFlight == Flight("none", "none", Undefined, 0, NoBody, "none", "", <<>>, 0)

NoFlights == [s \in 1..MaxFlights |-> NoFlight]

RaceIds == {1, 2}

RaceOps == {"updateTask", "partialUpdateTask", "deleteTask"}

RaceBodies == {Body(AbsentStr, AbsentStr, "completed", Undefined, NoDeadlineIn),
               Body(AbsentStr, AbsentStr, "done", Undefined, NoDeadlineIn),
               Body(Text(TitleMin, FALSE), AbsentStr, Undefined, Undefined, NoDeadlineIn)}

(* the lookup and the checks of a handler, up to its write: an update      *)
(* verifies the ownership and builds its fields, a delete finds the task   *)
(* and compares the owner                                                  *)
Arrives ==
    \E s \in 1..MaxFlights, op \in RaceOps, u \in Users, id \in RaceIds,
       body \in RaceBodies :
      LET owned == verifyTaskOwnership(tasks, id, u)
          built == validateAndBuildFields(body, clock)
          lookup == IF op = "deleteTask" THEN deleteTask(tasks, id, u).resp
                    ELSE IF ~owned.ok THEN errorHandler(owned.status, owned.message, <<>>)
                    ELSE IF ~built.ok THEN errorHandler("OK", built.message, <<>>)
                    ELSE Success("OK", "", <<>>, <<>>)
          sent == IF op = "deleteTask" THEN NoBody ELSE body
      IN /\ inflight[s].pc = "none"
         /\ op = "deleteTask" => body = CHOOSE b \in RaceBodies : TRUE
         /\ inflight' = [inflight EXCEPT ![s] =
                IF IsError(lookup)
                THEN Flight("answered", op, u, id, sent, lookup.code, lookup.message,
                            <<>>, 0)
                ELSE Flight("checked", op, u, id, sent, "none", "", <<>>, 0)]
         /\ UNCHANGED <<tasks, nextId, clock, req, resp, accounts, digest>>

(* findByIdAndUpdate(task._id, {$set}) and the answer of an update: the     *)
(* answer is a success with data null when the id matches no document      *)
UpdateWrites ==
    \E s \in 1..MaxFlights :
      LET f == inflight[s]
          built == validateAndBuildFields(f.body, clock)
          present == f.id \in DOMAIN tasks
      IN /\ f.pc = "checked"
         /\ f.op \in {"updateTask", "partialUpdateTask"}
         /\ IF ~SchemaValid(built.fields)
            THEN /\ tasks' = tasks
                 /\ inflight' = [inflight EXCEPT ![s] =
                        [f EXCEPT !.pc = "answered",
                                  !.code = errorHandler("OK", "Validation failed", <<>>).code,
                                  !.message = "Validation failed"]]
            ELSE /\ tasks' = FindByIdAndUpdate(tasks, f.id, built.fields)
                 /\ inflight' = [inflight EXCEPT ![s] =
                        [f EXCEPT !.pc = "answered", !.code = "OK",
                                  !.message = IF f.op = "updateTask"
                                              THEN "Task updated successfully"
                                              ELSE "Task partially updated successfully",
                                  !.data = InIdOrder(FindById(tasks', f.id)),
                                  !.matched = IF present THEN 1 ELSE 0]]
         /\ UNCHANGED <<nextId, clock, req, resp, accounts, digest>>

(* Task.deleteOne({_id}) and the answer of a delete, which does not look   *)
(* at the deletedCount                                                     *)
DeleteWrites ==
    \E s \in 1..MaxFlights :
      LET f == inflight[s]
          present == f.id \in DOMAIN tasks
      IN /\ f.pc = "checked"
         /\ f.op = "deleteTask"
         /\ tasks' = Without(tasks, {f.id})
         /\ inflight' = [inflight EXCEPT ![s] =
                [f EXCEPT !.pc = "answered", !.code = "OK",
                          !.message = "Task deleted successfully",
                          !.matched = IF present THEN 1 ELSE 0]]
         /\ UNCHANGED <<nextId, clock, req, resp, accounts, digest>>

(* no digest run and no request in flight *)
NoJob == accounts = NoAccounts /\ digest = NoDigest /\ inflight = <<>>

(* The digest job, step by step: the query and the synchronous grouping    *)
(* and dispatch behind it, each send settling, the end behind allSettled   *)
DigestQuery ==
    /\ digest.pc = "idle"
    /\ LET due == tasksDueToday(tasks, clock)
           groups == tasksByUser(due, accounts)
       IN digest' = IF Len(due) = 0
                    THEN [digest EXCEPT !.pc = "done"]
                    ELSE [digest EXCEPT !.pc = "sending",
                                        !.sends = emailPromises(groups)]
    /\ UNCHANGED <<tasks, nextId, clock, req, resp, accounts, inflight>>

DigestQueryFails ==
    /\ digest.pc = "idle"
    /\ digest' = [digest EXCEPT !.pc = "done", !.failed = TRUE, !.logged = @ + 1]
    /\ UNCHANGED <<tasks, nextId, clock, req, resp, accounts, inflight>>

SendSettles ==
    /\ digest.pc = "sending"
    /\ \E k \in 1..Len(digest.sends), outcome \in {"resolved", "rejected"} :
         /\ digest.sends[k].outcome = "pending"
         /\ digest' = settle(digest, k, outcome)
    /\ UNCHANGED <<tasks, nextId, clock, req, resp, accounts, inflight>>

DigestEnd ==
    /\ digest.pc = "sending"
    /\ \A k \in 1..Len(digest.sends) : digest.sends[k].outcome # "pending"
    /\ digest' = [digest EXCEPT !.pc = "done"]
    /\ UNCHANGED <<tasks, nextId, clock, req, resp, accounts, inflight>>

---------------------------------------------------------------------------
(* The task lifecycle: requests of any user in any order on a store that   *)
(* starts empty.                                                           *)

EmptyStore == [i \in {} |-> NoRequest]

Init ==
    /\ tasks = EmptyStore
    /\ nextId = 1
    /\ clock = 0
    /\ req = NoRequest
    /\ resp = NoResponse
    /\ NoJob

Next ==
    \/ CreateTask
    \/ GetTaskById
    \/ UpdateTask
    \/ PartialUpdateTask
    \/ DeleteAllTasks
    \/ DeleteTask

Spec == Init /\ [][Next]_vars

---------------------------------------------------------------------------
(* One request on a stored collection.  The store is any collection the    *)
(* lifecycle can leave behind (up to MaxDrawn documents of any owner,      *)
(* status and type) and a single request is served on it, so that the      *)
(* answer can be compared with the store it was computed from.             *)

StoredTitle == Text(SchemaTitleMin, FALSE)

Owned == Users \X VALID_STATUS \X VALID_TYPE

InitRequest ==
    /\ \E S \in SUBSET (1..MaxDrawn) : \E a \in [S -> Owned] :
         tasks = [i \in S |-> Task(i, a[i][1], StoredTitle, {}, a[i][2], a[i][3], {}, 0)]
    /\ nextId = MaxDrawn + 1
    /\ clock = 0
    /\ req = NoRequest
    /\ resp = NoResponse
    /\ NoJob

DeleteAllAny == req = NoRequest /\ DeleteAllWith(TypeParams \X StatusParams)

NextRequest ==
    \/ req = NoRequest /\ GetTaskById
    \/ req = NoRequest /\ UpdateTask
    \/ req = NoRequest /\ PartialUpdateTask
    \/ req = NoRequest /\ DeleteTask
    \/ DeleteAllAny

SpecRequest == InitRequest /\ [][NextRequest]_vars

(* One listing: documents created one after the other, some with a deadline *)
InitList ==
    /\ \E S \in SUBSET Ids : \E a \in [S -> Owned \X BOOLEAN] :
         tasks = [i \in S |-> Task(i, a[i][1][1], StoredTitle, {}, a[i][1][2],
                                   a[i][1][3],
                                   IF a[i][2] THEN {MaxTasks + i} ELSE {}, i - 1)]
    /\ nextId = MaxTasks + 1
    /\ clock = MaxTasks
    /\ req = NoRequest
    /\ resp = NoResponse
    /\ NoJob

NextList == req = NoRequest /\ GetTasks

SpecList == InitList /\ [][NextList]_vars

(* One dashboard: documents of both users and both types, without a       *)
(* deadline, due a day before the latest instant or due at it              *)
InitDash ==
    /\ clock \in {MaxClock - 1, MaxClock}
    /\ \E S \in SUBSET Ids :
         \E a \in [S -> Owned \X {{}, {MaxClock - DayLen}, {MaxClock}}] :
           tasks = [i \in S |-> Task(i, a[i][1][1], StoredTitle, {}, a[i][1][2],
                                     a[i][1][3], a[i][2], 0)]
    /\ nextId = MaxTasks + 1
    /\ req = NoRequest
    /\ resp = NoResponse
    /\ NoJob

NextDash == req = NoRequest /\ Dashboard

SpecDash == InitDash /\ [][NextDash]_vars

(* One write: a create, an update or a partial update with a body from    *)
(* WriteBodies on a drawn store, before or at the latest instant           *)
InitWrite ==
    /\ clock \in {MaxClock - 1, MaxClock}
    /\ \E S \in SUBSET Ids : \E a \in [S -> Owned] :
         tasks = [i \in S |-> Task(i, a[i][1], StoredTitle, {}, a[i][2], a[i][3], {}, 0)]
    /\ nextId = MaxTasks + 1
    /\ req = NoRequest
    /\ resp = NoResponse
    /\ NoJob

NextWrite ==
    \/ req = NoRequest /\ PostTask
    \/ req = NoRequest /\ PutTask
    \/ req = NoRequest /\ PatchTask

SpecWrite == InitWrite /\ [][NextWrite]_vars

(* One update or partial update with a body from WriteBodies on a drawn    *)
(* store whose tasks are bare (no description, no deadline) or filled      *)
Contents ==
    {<<StoredTitle, {}, "pending", "work", {}>>,
     <<Text(SchemaTitleMin + 1, FALSE), {Text(SchemaDescMin, FALSE)}, "in-progress",
       "personal", {MaxClock + 1}>>}

InitUpdate ==
    /\ clock \in {MaxClock - 1, MaxClock}
    /\ \E S \in SUBSET Ids : \E a \in [S -> Users \X Contents] :
         tasks = [i \in S |-> Task(i, a[i][1], a[i][2][1], a[i][2][2], a[i][2][3],
                                    a[i][2][4], a[i][2][5], 0)]
    /\ nextId = MaxTasks + 1
    /\ req = NoRequest
    /\ resp = NoResponse
    /\ NoJob

NextUpdate ==
    \/ req = NoRequest /\ PutTask
    \/ req = NoRequest /\ PatchTask

SpecUpdate == InitUpdate /\ [][NextUpdate]_vars

(* Dashboards of one user's tasks: up to MaxDrawn documents of one type,   *)
(* any status, with deadlines around the instant of the requests; the      *)
(* dashboard is asked for again and again on the same store.               *)
SummaryParams == {"all", "work"}

InitSummary ==
    /\ clock \in {MaxClock - 1, MaxClock}
    /\ \E n \in 0..MaxDrawn :
         \E a \in [1..n -> VALID_STATUS \X ({{}} \cup {{d} : d \in 1..(MaxClock + 1)})] :
           tasks = [i \in 1..n |-> Task(i, "u1", StoredTitle, {}, a[i][1], "work",
                                         a[i][2], 0)]
    /\ nextId = MaxDrawn + 1
    /\ req = NoRequest
    /\ resp = NoResponse
    /\ NoJob

NextSummary == DashboardWith(SummaryParams)

SpecSummary == InitSummary /\ [][NextSummary]_vars

(* Up to MaxFlights concurrent updates and deletes of two stored tasks     *)
InitRace ==
    /\ clock = MaxClock
    /\ \E a \in [RaceIds -> Users] :
         tasks = [i \in RaceIds |-> Task(i, a[i], StoredTitle, {}, "pending", "work", {}, 0)]
    /\ nextId = MaxTasks + 1
    /\ req = NoRequest
    /\ resp = NoResponse
    /\ accounts = NoAccounts
    /\ digest = NoDigest
    /\ inflight = NoFlights

NextRace ==
    \/ Arrives
    \/ UpdateWrites
    \/ DeleteWrites

SpecRace == InitRace /\ [][NextRace]_vars

(* One error passed to the error handler: the status the handler left on   *)
(* the response, the error thrown and the environment are drawn.           *)
ResStatuses == {"OK", "CREATED", "VALIDATION_ERROR", "UNAUTHORIZED", "FORBIDDEN",
                "NOT_FOUND", "INTERNAL_SERVER_ERROR", "CONFLICT"}

ErrMessages == {"Task not found", "Task validation failed", ""}

ErrStacks == {"Error: at asyncHandler", Undefined}

NodeEnvs == {"production", "development", "Production", Undefined}

Thrown(resStatus, err, nodeEnv) ==
    [op |-> "throw", statusCode |-> resStatus, err |-> err, env |-> nodeEnv]

ErrorHandled ==
    /\ req.op = "throw"
    /\ resp = NoResponse
    /\ resp' = errorJson(req.statusCode, req.err, req.env)
    /\ UNCHANGED <<tasks, nextId, clock, req, accounts, digest, inflight>>

InitError ==
    /\ clock = MaxClock
    /\ tasks = EmptyStore
    /\ nextId = 1
    /\ req \in {Thrown(c, Err(m, k), e) :
                   c \in ResStatuses, m \in ErrMessages, k \in ErrStacks, e \in NodeEnvs}
    /\ resp = NoResponse
    /\ NoJob

NextError == ErrorHandled

SpecError == InitError /\ [][NextError]_vars

(* One run of the digest job on a drawn store.  The tasks were created the *)
(* day before the latest instant or on its day and are due, if at all, the *)
(* day before, on the day (at midnight or later) or at midnight of the day *)
(* after; a deadline is always later than the creation.                    *)
DigestDates ==
    LET T == Midnight(MaxClock)
    IN {<<T - 1, {}>>, <<T - 1, {T}>>, <<T - 1, {T + 1}>>, <<T, {T + 1}>>,
        <<T - 1, {T + DayLen}>>, <<T - DayLen, {T - 1}>>}

DigestAccounts ==
    {[u \in Users |-> IF u = "u1" THEN k ELSE "email"] : k \in AccountKinds}

InitDigest ==
    /\ clock \in {MaxClock - 1, MaxClock}
    /\ \E n \in 0..MaxTasks :
         \E a \in [1..n -> Users \X {"in-progress", "completed"} \X DigestDates] :
           tasks = [i \in 1..n |-> Task(i, a[i][1], StoredTitle, {}, a[i][2], "work",
                                         a[i][3][2], a[i][3][1])]
    /\ nextId = MaxTasks + 1
    /\ req = NoRequest
    /\ resp = NoResponse
    /\ accounts \in DigestAccounts
    /\ digest = NoDigest
    /\ inflight = <<>>

NextDigest ==
    \/ DigestQuery
    \/ DigestQueryFails
    \/ SendSettles
    \/ DigestEnd

SpecDigest == InitDigest /\ [][NextDigest]_vars

(* every step of the job is taken once it can be: the store answers the    *)
(* query and every send settles                                            *)
SpecDigestLive == SpecDigest /\ WF_vars(NextDigest)

---------------------------------------------------------------------------
(* Properties *)

Stored == {tasks[i] : i \in DOMAIN tasks}

Mutations == {"createTask", "updateTask", "partialUpdateTask", "deleteTask",
              "deleteAllTasks"}

(* The store keeps the shape the schema gives it *)
StoreOK ==
    /\ DOMAIN tasks \subseteq 1..(nextId - 1)
    /\ \A i \in DOMAIN tasks :
         /\ tasks[i]._id = i
         /\ tasks[i].user_id \in Users
         /\ tasks[i].taskStatus \in VALID_STATUS
         /\ tasks[i].type \in VALID_TYPE

(* C1: every stored task has one owner, the user whose create request      *)
(* produced it; the owner never changes; and a task changes or leaves the  *)
(* store only in a step that serves a request of its owner.                *)
C1_OwnerOnly ==
    [][\A id \in Ids :
         /\ (id \in DOMAIN tasks /\ id \in DOMAIN tasks')
              => tasks'[id].user_id = tasks[id].user_id
         /\ (id \in DOMAIN tasks /\ (id \notin DOMAIN tasks' \/ tasks'[id] # tasks[id]))
              => (req'.op \in Mutations /\ req'.user = tasks[id].user_id)
         /\ (id \notin DOMAIN tasks /\ id \in DOMAIN tasks')
              => (req'.op = "createTask" /\ tasks'[id].user_id = req'.user)]_vars

(* a delete-by-id by a user who is not the owner was refused while both    *)
(* users have a task in the store                                          *)
C1_Witness ==
    /\ req.op = "deleteTask"
    /\ resp.code = "FORBIDDEN"
    /\ req.id \in DOMAIN tasks
    /\ tasks[req.id].user_id # req.user
    /\ \E t \in Stored : t.user_id = req.user

(* C2: a listing returns no task whose owner is not the requester *)
C2_NoCrossOwner ==
    req.op = "getTasks" => \A i \in 1..Len(resp.data) : resp.data[i].user_id = req.user

(* a listing answered with tasks while another user's task of the same     *)
(* type and status is in the store                                         *)
C2_Witness ==
    /\ req.op = "getTasks"
    /\ Len(resp.data) > 0
    /\ \E t \in Stored :
         /\ t.user_id # req.user
         /\ t.type = resp.data[1].type
         /\ t.taskStatus = resp.data[1].taskStatus

(* the requester's tasks that a listing with these parameters is to return *)
Listed(u, type, status) ==
    {t \in Stored :
        /\ t.user_id = u
        /\ Truthy(type) => t.type = type
        /\ IF Truthy(status) THEN t.taskStatus = status
           ELSE t.taskStatus # "completed"}

(* C3: an accepted listing returns exactly the requester's tasks that match *)
(* the type filter, when given, and the status filter: the given status,    *)
(* or not completed when no status is given; each once.                     *)
C3_ResultSet ==
    (req.op = "getTasks" /\ resp.code = "OK") =>
        /\ Range(resp.data) = Listed(req.user, req.type, req.status)
        /\ Len(resp.data) = Cardinality(Listed(req.user, req.type, req.status))
        /\ ~Truthy(req.status) =>
              \A i \in 1..Len(resp.data) : resp.data[i].taskStatus # "completed"
        /\ req.status = "completed" =>
              \A i \in 1..Len(resp.data) : resp.data[i].taskStatus = "completed"

(* a listing without a status left a completed task of the requester out    *)
(* and returned another of the requester's tasks                            *)
C3_Witness ==
    /\ req.op = "getTasks"
    /\ resp.code = "OK"
    /\ ~Truthy(req.status)
    /\ Len(resp.data) > 0
    /\ \E t \in Stored : t.user_id = req.user /\ t.taskStatus = "completed"

(* C4: a listing with a type, status or sort that is given and not in its   *)
(* vocabulary is answered with a validation error and sends nothing to the  *)
(* store.                                                                   *)
C4_InvalidFilter ==
    (/\ req.op = "getTasks"
     /\ \/ Truthy(req.type) /\ req.type \notin {"work", "personal"}
        \/ Truthy(req.status) /\ req.status \notin {"pending", "in-progress", "completed"}
        \/ Truthy(req.sort)
             /\ req.sort \notin {"deadline", "-deadline", "createdAt", "-createdAt"})
    => /\ resp.code = "VALIDATION_ERROR"
       /\ resp.title = "Validation Error"
       /\ resp.dbCalls = <<>>
       /\ resp.query = {}
       /\ resp.data = <<>>

(* a listing whose only fault is its sort key was refused although the      *)
(* requester has a task it would have returned                              *)
C4_Witness ==
    /\ req.op = "getTasks"
    /\ req.sort = "title"
    /\ req.type = "work"
    /\ req.status = "pending"
    /\ resp.code = "VALIDATION_ERROR"
    /\ Listed(req.user, req.type, req.status) # {}

(* the sort specification the interface documents for a sort parameter *)
DocumentedSort(sort) ==
    CASE sort = "deadline" -> [field |-> "taskDeadline", dir |-> 1]
      [] sort = "-deadline" -> [field |-> "taskDeadline", dir |-> -1]
      [] sort = "createdAt" -> [field |-> "createdAt", dir |-> 1]
      [] sort = "-createdAt" -> [field |-> "createdAt", dir |-> -1]
      [] OTHER -> [field |-> "createdAt", dir |-> 1]

(* C5: an accepted listing sorts by the documented specification: one field, *)
(* taskDeadline or createdAt, ascending unless the key starts with a dash,   *)
(* creation time ascending when no key is given.                             *)
C5_SortSpec ==
    (req.op = "getTasks" /\ resp.code = "OK") =>
        /\ resp.sort = {DocumentedSort(req.sort)}
        /\ \A c \in resp.sort : c.field \in {"taskDeadline", "createdAt"}

(* a listing by latest deadline returned two tasks, the later deadline first *)
C5_Witness ==
    /\ req.op = "getTasks"
    /\ req.sort = "-deadline"
    /\ resp.sort = {[field |-> "taskDeadline", dir |-> -1]}
    /\ Len(resp.data) = 2
    /\ KeyLess(resp.data[2], resp.data[1], "taskDeadline")


Guarded == {"updateTask", "partialUpdateTask"}

(* C6: the ownership guard of an update or partial update has three         *)
(* outcomes: not found when no task has the id, forbidden when the task is  *)
(* another user's, and otherwise the stored task itself, with which the     *)
(* handler goes on; a request the guard refuses leaves the store as it was. *)
C6_Guard ==
    [][req'.op \in Guarded =>
         LET guard == verifyTaskOwnership(tasks, req'.id, req'.user)
         IN /\ req'.id \notin DOMAIN tasks =>
                 /\ ~guard.ok /\ guard.status = "NOT_FOUND" /\ guard.task = {}
                 /\ resp'.code = "NOT_FOUND" /\ resp'.title = "Not Found"
            /\ (req'.id \in DOMAIN tasks /\ tasks[req'.id].user_id # req'.user) =>
                 /\ ~guard.ok /\ guard.status = "FORBIDDEN" /\ guard.task = {}
                 /\ resp'.code = "FORBIDDEN" /\ resp'.title = "Forbidden"
            /\ (req'.id \in DOMAIN tasks /\ tasks[req'.id].user_id = req'.user) =>
                 /\ guard.ok /\ guard.task = {tasks[req'.id]}
                 /\ resp'.code \notin {"NOT_FOUND", "FORBIDDEN"}
            /\ ~guard.ok => (tasks' = tasks /\ resp'.dbCalls = <<"findById">>)
            /\ guard.status \in {"NOT_FOUND", "FORBIDDEN", "OK"}]_vars

(* an update passed the guard and wrote to the requester's task while a     *)
(* task of another user is in the store                                     *)
C6_Witness ==
    /\ req.op = "updateTask"
    /\ resp.code = "OK"
    /\ resp.dbCalls = <<"findById", "findByIdAndUpdate">>
    /\ Len(resp.data) = 1
    /\ resp.data[1].user_id = req.user
    /\ resp.data[1].taskStatus = "completed"
    /\ \E t \in Stored : t.user_id # req.user

ById == {"updateTask", "partialUpdateTask", "deleteTask", "getTaskById"}

(* C7 as claimed: update, partial update, delete-by-id and get-by-id answer *)
(* not found for an id without a task and forbidden for another user's      *)
(* task, change nothing and return no task.                                 *)
C7_Original ==
    [][req'.op \in ById =>
         /\ req'.id \notin DOMAIN tasks =>
              (resp'.code = "NOT_FOUND" /\ tasks' = tasks /\ resp'.data = <<>>)
         /\ (req'.id \in DOMAIN tasks /\ tasks[req'.id].user_id # req'.user) =>
              (resp'.code = "FORBIDDEN" /\ tasks' = tasks /\ resp'.data = <<>>)]_vars

(* C7 amended: update, partial update and delete-by-id answer not found for *)
(* an id without a task and forbidden for another user's task; get-by-id    *)
(* answers not found in both cases; in every one of these cases the store   *)
(* is unchanged, nothing was written and no task is returned.               *)
C7_Amended ==
    [][req'.op \in ById =>
         /\ req'.id \notin DOMAIN tasks =>
              (resp'.code = "NOT_FOUND" /\ tasks' = tasks /\ resp'.data = <<>>)
         /\ (req'.id \in DOMAIN tasks /\ tasks[req'.id].user_id # req'.user) =>
              /\ resp'.code = IF req'.op = "getTaskById" THEN "NOT_FOUND" ELSE "FORBIDDEN"
              /\ tasks' = tasks
              /\ resp'.data = <<>>
              /\ Len(resp'.dbCalls) = 1]_vars

(* get-by-id on another user's task was answered not found *)
C7_Witness ==
    /\ req.op = "getTaskById"
    /\ req.id \in DOMAIN tasks
    /\ tasks[req.id].user_id # req.user
    /\ resp.code = "NOT_FOUND"
    /\ resp.data = <<>>

BulkRemoved == (DOMAIN tasks) \ (DOMAIN tasks')

(* the ids of the requester's tasks that match the supplied filters, the    *)
(* supplied values trimmed as the handler trims them                        *)
BulkMatchingTrimmed(store, u, type, status) ==
    {i \in DOMAIN store :
        /\ store[i].user_id = u
        /\ Truthy(type) => store[i].type = Trim(type)
        /\ Truthy(status) => store[i].taskStatus = Trim(status)}

(* C8 as claimed: a bulk delete answered with success removes exactly the   *)
(* requester's tasks that match every supplied filter, reports their number *)
(* as deletedCount and leaves every other task as it was.                   *)
C8_Original ==
    [][req'.op = "deleteAllTasks" =>
         /\ resp'.code = "OK" =>
              /\ BulkRemoved = BulkMatchingTrimmed(tasks, req'.user, req'.type, req'.status)
              /\ resp'.deletedCount = {Cardinality(BulkRemoved)}
         /\ \A i \in DOMAIN tasks' : i \in DOMAIN tasks /\ tasks'[i] = tasks[i]]_vars

(* C8 amended: a bulk delete answered with success removes exactly the      *)
(* requester's tasks that match every supplied filter, the supplied values  *)
(* compared after trimming, and one answered with an error removes nothing; *)
(* every other task stays as it was; deletedCount is the number of removed  *)
(* tasks whenever the requester owned a task before the request, and is     *)
(* missing from the answer when the requester owned none.                   *)
C8_Amended ==
    [][req'.op = "deleteAllTasks" =>
         /\ resp'.code = "OK" =>
              BulkRemoved = BulkMatchingTrimmed(tasks, req'.user, req'.type, req'.status)
         /\ resp'.code # "OK" => BulkRemoved = {}
         /\ \A i \in DOMAIN tasks' : i \in DOMAIN tasks /\ tasks'[i] = tasks[i]
         /\ (resp'.code = "OK" /\ \E i \in DOMAIN tasks : tasks[i].user_id = req'.user)
              => resp'.deletedCount = {Cardinality(BulkRemoved)}
         /\ (\A i \in DOMAIN tasks : tasks[i].user_id # req'.user)
              => (resp'.code = "OK" /\ resp'.deletedCount = {} /\ resp'.data = <<>>)
         /\ req'.status = "completed" =>
              \A i \in BulkRemoved : tasks[i].taskStatus = "completed"]_vars

(* a bulk delete of completed tasks removed one task and left a task of the *)
(* requester with another status and a completed task of another user       *)
C8_Witness ==
    /\ req.op = "deleteAllTasks"
    /\ req.status = "completed"
    /\ ~Truthy(req.type)
    /\ resp.deletedCount = {1}
    /\ \E t \in Stored : t.user_id = req.user /\ t.taskStatus # "completed"
    /\ \E t \in Stored : t.user_id # req.user /\ t.taskStatus = "completed"
    /\ Cardinality(DOMAIN tasks) = 2

(* C9 as claimed: a bulk delete with a status outside the three statuses or *)
(* a type outside the two types is answered with a validation error and     *)
(* deletes nothing.                                                         *)
C9_Claim ==
    [][(/\ req'.op = "deleteAllTasks"
        /\ \/ Truthy(req'.status)
                /\ req'.status \notin {"pending", "in-progress", "completed"}
           \/ Truthy(req'.type) /\ req'.type \notin {"work", "personal"})
       => (resp'.code = "VALIDATION_ERROR" /\ tasks' = tasks)]_vars

(* the tasks of the requester that a dashboard of this type aggregates *)
Aggregated(u, typeParam) ==
    LET type == IF Truthy(typeParam) THEN ToLowerCase(typeParam) ELSE "all"
    IN {t \in Stored : t.user_id = u /\ (type = "all" \/ t.type = type)}

(* C10: the dashboard's activeCount is the number of aggregated tasks that  *)
(* are pending or in progress, completedCount the number that are           *)
(* completed, and the two add up to the number of tasks aggregated.         *)
C10_Counts ==
    (req.op = "dashboard" /\ resp.code = "OK") =>
        LET list == Aggregated(req.user, req.type)
        IN /\ resp.summary.activeTasksCount =
                Cardinality({t \in list : t.taskStatus \in {"pending", "in-progress"}})
           /\ resp.summary.completedTasksCount =
                Cardinality({t \in list : t.taskStatus = "completed"})
           /\ resp.summary.activeTasksCount + resp.summary.completedTasksCount
                = Cardinality(list)

(* a dashboard counted an in-progress task as active and another task as    *)
(* completed                                                                *)
C10_Witness ==
    /\ req.op = "dashboard"
    /\ resp.code = "OK"
    /\ resp.summary.activeTasksCount = 1
    /\ resp.summary.completedTasksCount = 1
    /\ \E t \in Aggregated(req.user, req.type) : t.taskStatus = "in-progress"


(* the tasks a dashboard aggregates, in the order the store hands them over *)
AggregatedList == InIdOrder(Aggregated(req.user, req.type))

(* the calendar day of an instant, counted from the epoch *)
DayOf(t) == t \div DayLen

(* C11: the dashboard's overdue list holds, in the order of the task list,  *)
(* exactly the tasks with a deadline on a day before the reference day and  *)
(* a status other than completed, and overdueCount is its length; a task    *)
(* without a deadline, a completed task and a task due on the reference day *)
(* itself, however early, are not in it.                                    *)
C11_Overdue ==
    (req.op = "dashboard" /\ resp.code = "OK") =>
        LET IsOverdue(t) == /\ t.taskDeadline # {}
                            /\ \A d \in t.taskDeadline : DayOf(d) < DayOf(clock)
                            /\ t.taskStatus # "completed"
        IN /\ resp.summary.tasksOverdue = SelectSeq(AggregatedList, IsOverdue)
           /\ resp.summary.overdueTasksCount = Len(resp.summary.tasksOverdue)
           /\ \A t \in Range(resp.summary.tasksOverdue) :
                /\ t.taskDeadline # {}
                /\ t.taskStatus # "completed"
                /\ \A d \in t.taskDeadline : DayOf(d) # DayOf(clock)

(* a dashboard listed one overdue task and left out a task that is not      *)
(* completed and was due earlier on the day of the request                  *)
C11_Witness ==
    /\ req.op = "dashboard"
    /\ resp.code = "OK"
    /\ resp.summary.overdueTasksCount = 1
    /\ \E t \in Range(AggregatedList) :
         /\ t.taskStatus # "completed"
         /\ \E d \in t.taskDeadline : DayOf(d) = DayOf(clock) /\ d < clock

(* the three tasks of the documented example: due today and pending, due    *)
(* yesterday and in progress, due today and completed                       *)
IsExample(list) ==
    /\ Len(list) = 3
    /\ list[1].taskStatus = "pending"
    /\ \E d \in list[1].taskDeadline : DayOf(d) = DayOf(clock)
    /\ list[2].taskStatus = "in-progress"
    /\ \E d \in list[2].taskDeadline : DayOf(d) = DayOf(clock) - 1
    /\ list[3].taskStatus = "completed"
    /\ \E d \in list[3].taskDeadline : DayOf(d) = DayOf(clock)

(* C12: the dashboard's today list holds, in the order of the task list,    *)
(* exactly the tasks whose deadline is on the reference day, whatever their *)
(* status; the progress chart counts the pending, in-progress and completed *)
(* tasks of the today list, so its counts add up to the length of that      *)
(* list; and the three-task example gives 2 active, 1 completed, 1 overdue, *)
(* 2 today tasks and the chart pending 1, in-progress 0, completed 1.       *)
C12_Today ==
    (req.op = "dashboard" /\ resp.code = "OK") =>
        LET IsToday(t) == \E d \in t.taskDeadline : DayOf(d) = DayOf(clock)
            today == resp.summary.todayTasks
            chart == resp.summary.progressChart
            Among(status) == Cardinality({i \in 1..Len(today) :
                                             today[i].taskStatus = status})
        IN /\ today = SelectSeq(AggregatedList, IsToday)
           /\ chart.pending = Among("pending")
           /\ chart.inProgress = Among("in-progress")
           /\ chart.completed = Among("completed")
           /\ chart.pending + chart.inProgress + chart.completed = Len(today)
           /\ IsExample(AggregatedList) =>
                /\ resp.summary.activeTasksCount = 2
                /\ resp.summary.completedTasksCount = 1
                /\ resp.summary.overdueTasksCount = 1
                /\ Len(today) = 2
                /\ chart = [pending |-> 1, inProgress |-> 0, completed |-> 1]

(* the dashboard of the three-task example was answered *)
C12_Witness ==
    /\ req.op = "dashboard"
    /\ resp.code = "OK"
    /\ IsExample(AggregatedList)
    /\ Len(resp.summary.todayTasks) = 2
    /\ resp.summary.overdueTasksCount = 1

(* C13: the dashboard queries the store for the requester's tasks only,     *)
(* of the given type when the type is work or personal and of any type when *)
(* it is all; every task it lists is such a task and its counts cover all   *)
(* of them and nothing else.                                                *)
C13_Scope ==
    (req.op = "dashboard" /\ resp.code = "OK") =>
        LET type == ToLowerCase(req.type)
            mine == {t \in Stored :
                        /\ t.user_id = req.user
                        /\ type \in {"work", "personal"} => t.type = type}
            listed == Range(resp.summary.tasksOverdue)
                        \cup Range(resp.summary.todayTasks)
        IN /\ \A q \in resp.query :
                /\ q.user_id = {req.user}
                /\ q.type = IF type \in {"work", "personal"} THEN {type} ELSE {}
                /\ Find(tasks, q) = mine
           /\ resp.query # {}
           /\ listed \subseteq mine
           /\ resp.summary.activeTasksCount + resp.summary.completedTasksCount
                = Cardinality(mine)

(* a dashboard of type work counted one task while the requester also has  *)
(* a personal task and another user has a work task                         *)
C13_Witness ==
    /\ req.op = "dashboard"
    /\ req.type = "work"
    /\ resp.code = "OK"
    /\ \E t \in Stored : t.user_id # req.user /\ t.type = "work"
    /\ \E t \in Stored : t.user_id = req.user /\ t.type = "work"
    /\ resp.summary.activeTasksCount + resp.summary.completedTasksCount = 1
    /\ Cardinality(Stored) = 2

(* a dashboard of type all counted a work task and a personal task of the   *)
(* requester                                                                *)
C13_WitnessAll ==
    /\ req.op = "dashboard"
    /\ req.type = "all"
    /\ resp.summary.activeTasksCount + resp.summary.completedTasksCount = 2
    /\ \E t \in Stored : t.type = "work"
    /\ \E t \in Stored : t.type = "personal"

(* C14 as claimed: a dashboard request whose type parameter is not one of   *)
(* all, work, personal fails with a validation error before the store is    *)
(* queried.                                                                 *)
C14_Original ==
    (req.op = "dashboard" /\ Truthy(req.type)
       /\ req.type \notin {"all", "work", "personal"})
      => (resp.code = "VALIDATION_ERROR" /\ resp.dbCalls = <<>>)

(* C14 amended: a dashboard request is accepted exactly when its type       *)
(* parameter, put in lower case, is one of all, work, personal; any other   *)
(* value fails with a validation error, and then the store was not queried. *)
C14_Amended ==
    (req.op = "dashboard" /\ Truthy(req.type)) =>
        IF ToLowerCase(req.type) \in {"all", "work", "personal"}
        THEN resp.code = "OK" /\ resp.dbCalls = <<"find">>
        ELSE /\ resp.code = "VALIDATION_ERROR"
             /\ resp.title = "Validation Error"
             /\ resp.dbCalls = <<>>
             /\ resp.query = {}
             /\ resp.summary = NoSummary

(* a dashboard request with an unknown type was refused on a store that     *)
(* holds a task of the requester                                            *)
C14_Witness ==
    /\ req.op = "dashboard"
    /\ req.type = "invalid"
    /\ resp.code = "VALIDATION_ERROR"
    /\ \E t \in Stored : t.user_id = req.user

(* a dashboard request with the type in upper case was accepted *)
C14_WitnessUpper ==
    /\ req.op = "dashboard"
    /\ req.type = "ALL"
    /\ resp.code = "OK"
    /\ resp.summary.activeTasksCount = 1

Writes == {"createTask", "updateTask", "partialUpdateTask"}

(* C16: whatever bodies the create, update and partial-update requests      *)
(* carry, every stored task has one of the three statuses and one of the   *)
(* two types.                                                               *)
C16_Enums ==
    \A t \in Stored :
        /\ t.taskStatus \in {"pending", "in-progress", "completed"}
        /\ t.type \in {"work", "personal"}

(* an update with an unknown status was refused and the task of the         *)
(* requester kept the status it had                                         *)
C16_Witness ==
    /\ req.op = "updateTask"
    /\ resp.message = "Invalid status value"
    /\ req.id \in DOMAIN tasks
    /\ tasks[req.id].user_id = req.user
    /\ tasks[req.id].taskStatus = "in-progress"

(* C17: every stored task has a title without surrounding blanks of 2 to 25 *)
(* characters and, when it has a description, a description without         *)
(* surrounding blanks of at most 100 characters.                            *)
C17_Lengths ==
    \A t \in Stored :
        /\ t.taskTitle.present
        /\ ~t.taskTitle.pad
        /\ t.taskTitle.len >= 2
        /\ t.taskTitle.len <= 25
        /\ \A d \in t.taskDescription : ~d.pad /\ d.len <= 100

(* a task sent with blanks around its title and its description was stored  *)
(* without them                                                             *)
C17_Witness ==
    /\ req.op = "createTask"
    /\ req.body.title.pad
    /\ req.body.description.pad
    /\ resp.code = "CREATED"
    /\ \E t \in Stored :
         /\ t._id \notin Ids
         /\ t.taskTitle = TrimStr(req.body.title)
         /\ t.taskDescription = {TrimStr(req.body.description)}

(* a title of 25 characters was written by an update *)
C17_WitnessMax ==
    /\ req.op = "updateTask"
    /\ resp.code = "OK"
    /\ \E t \in Stored : t._id = req.id /\ t.taskTitle.len = 25
                         /\ \E d \in t.taskDescription : d.len = 100

(* the request bodies within the bounds of the data model *)
WithinBounds(body, now) ==
    /\ body.type \in {"work", "personal"}
    /\ body.title.present
    /\ body.title.len >= 2
    /\ body.title.len <= 25
    /\ body.description.present =>
         (body.description.len >= 1 /\ body.description.len <= 100)
    /\ body.deadline.kind # "malformed"
    /\ body.deadline.kind = "date" => body.deadline.at > now

(* C18 as claimed: a create request with a valid type, a title of 2 to 25   *)
(* characters after trimming, no description or one of 1 to 100 characters  *)
(* after trimming, and no deadline or a future one succeeds, and a task     *)
(* with the trimmed values is stored.                                       *)
C18_Claim ==
    [][(req'.op = "createTask" /\ WithinBounds(req'.body, clock)) =>
         /\ resp'.code = "CREATED"
         /\ \E i \in (DOMAIN tasks') \ (DOMAIN tasks) :
              /\ tasks'[i].taskTitle = TrimStr(req'.body.title)
              /\ tasks'[i].taskDescription =
                   IF req'.body.description.present
                   THEN {TrimStr(req'.body.description)} ELSE {}
              /\ tasks'[i].type = req'.body.type]_vars

(* the write requests that reach the validation of the body: a create with  *)
(* a title and a known type, an update or partial update of a task of the   *)
(* requester                                                                *)
ReachesValidation(r, store) ==
    \/ /\ r.op = "createTask"
       /\ r.body.title.present /\ r.body.title.len > 0
       /\ r.body.type \in {"work", "personal"}
    \/ /\ r.op \in {"updateTask", "partialUpdateTask"}
       /\ r.id \in DOMAIN store
       /\ store[r.id].user_id = r.user

(* C19 as claimed: a create, update or partial update that supplies a       *)
(* deadline at or before the instant of the request is refused with a       *)
(* validation error and changes nothing; every deadline written is later    *)
(* than the instant of the request that wrote it.                           *)
C19_Claim ==
    [][req'.op \in Writes =>
         /\ (/\ ReachesValidation(req', tasks)
             /\ req'.body.deadline.kind = "date"
             /\ req'.body.deadline.at <= clock)
              => (resp'.code = "VALIDATION_ERROR" /\ tasks' = tasks)
         /\ \A i \in DOMAIN tasks' :
              (i \notin DOMAIN tasks \/ tasks'[i].taskDeadline # tasks[i].taskDeadline)
                => \A d \in tasks'[i].taskDeadline : d > clock]_vars

(* the bodies that fail the validation of the controller *)
FailsValidation(body, now) ==
    \/ body.title.present /\ RawLen(body.title) > 0
         /\ (body.title.len < 2 \/ body.title.len > 25)
    \/ body.description.present /\ body.description.len > 100
    \/ body.deadline.kind = "malformed"
    \/ body.deadline.kind = "date" /\ body.deadline.at <= now

(* C20 as claimed: a create, update or partial update whose title length is *)
(* out of bounds, whose description is too long, or whose deadline is       *)
(* malformed or not in the future is answered with a validation error,      *)
(* never with a server error.                                               *)
C20_Claim ==
    [][(/\ req'.op \in Writes
        /\ ReachesValidation(req', tasks)
        /\ FailsValidation(req'.body, clock))
         => (resp'.code = "VALIDATION_ERROR" /\ resp'.title = "Validation Error")]_vars


(* the storage calls that change the store *)
MutatingCalls == {"create", "findByIdAndUpdate", "deleteMany", "deleteOne"}

(* C21: a create, update, partial update, delete-by-id or bulk delete that  *)
(* is answered with an error leaves the store exactly as it was; when the   *)
(* error is a validation error, not found or forbidden, no mutating storage *)
(* call was issued before it.                                               *)
C21_NoPartialWrite ==
    [][(req'.op \in Mutations /\ IsError(resp')) =>
         /\ tasks' = tasks
         /\ resp'.code \in {"VALIDATION_ERROR", "NOT_FOUND", "FORBIDDEN"} =>
              \A i \in 1..Len(resp'.dbCalls) : resp'.dbCalls[i] \notin MutatingCalls]_vars

(* an update of the requester's own task was refused by the validators and  *)
(* the task still has the status and the title it had                       *)
C21_Witness ==
    /\ req.op = "updateTask"
    /\ resp.code = "INTERNAL_SERVER_ERROR"
    /\ resp.dbCalls = <<"findById", "findByIdAndUpdate">>
    /\ req.id \in DOMAIN tasks
    /\ tasks[req.id].user_id = req.user
    /\ tasks[req.id].taskStatus = "pending"
    /\ tasks[req.id].taskTitle = StoredTitle

(* a bulk delete with an unknown status was refused and the requester's     *)
(* tasks are still stored                                                   *)
C21_WitnessFilter ==
    /\ req.op = "deleteAllTasks"
    /\ resp.code = "VALIDATION_ERROR"
    /\ \E t \in Stored : t.user_id = req.user

---------------------------------------------------------------------------
(* The digest job *)

(* what a run should mail, from the store and the instant alone: due on    *)
(* the day of the run, not completed, owned by a user record with an       *)
(* email, and not created on the day it is due                             *)
Qualifies(t) ==
    /\ \E d \in t.taskDeadline : DayOf(d) = DayOf(clock) /\ DayOf(d) # DayOf(t.createdAt)
    /\ t.taskStatus # "completed"
    /\ accounts[t.user_id] = "email"

(* the places <<k, i>> of task list i of send k *)
Mailed ==
    {p \in (1..Len(digest.sends)) \X (1..Len(tasks)) :
        p[2] <= Len(digest.sends[p[1]].tasks)}

Queried == digest.pc # "idle" /\ ~digest.failed

(* C22: in a run of the digest job whose query succeeded, no owner has two  *)
(* sends, an owner has a send exactly when one of the owner's tasks         *)
(* qualifies, every task in a send's list is owned by the recipient, and    *)
(* every qualifying task stands at exactly one place of one list.  A send   *)
(* is the call of sendDeadlineReminder for the owner, whatever the mail     *)
(* transport then does with it.                                             *)
C22_OnePerOwner ==
    Queried =>
      /\ \A j, k \in 1..Len(digest.sends) :
           digest.sends[j].to = digest.sends[k].to => j = k
      /\ \A u \in Users :
           (\E t \in Stored : t.user_id = u /\ Qualifies(t))
             <=> (\E k \in 1..Len(digest.sends) : digest.sends[k].to = u)
      /\ \A p \in Mailed : digest.sends[p[1]].tasks[p[2]].user_id = digest.sends[p[1]].to
      /\ \A t \in Stored :
           Qualifies(t) =>
             Cardinality({p \in Mailed : digest.sends[p[1]].tasks[p[2]]._id = t._id}) = 1

(* a finished run that mailed one owner a list of two tasks *)
C22_Witness ==
    /\ digest.pc = "done"
    /\ \E k \in 1..Len(digest.sends) : Len(digest.sends[k].tasks) = 2

(* a finished run that mailed two owners *)
C22_WitnessTwo ==
    /\ digest.pc = "done"
    /\ Len(digest.sends) = 2

(* the run is over, let no error out and, if its query succeeded, made a    *)
(* send that has settled for every owner with a qualifying task             *)
Finished ==
    /\ digest.pc = "done"
    /\ ~digest.raised
    /\ ~digest.failed =>
         \A u \in Users :
           (\E t \in Stored : t.user_id = u /\ Qualifies(t)) =>
             \E k \in 1..Len(digest.sends) :
               /\ digest.sends[k].to = u
               /\ digest.sends[k].outcome \in {"resolved", "rejected"}

(* C23: every run of the digest job ends, and ends without an error let     *)
(* out, also when the query fails; when the query succeeded, a send was     *)
(* made for every owner with a qualifying task, whether the other sends     *)
(* were delivered or failed.                                                *)
C23_Terminates == <>[]Finished

(* a finished run in which the send to one owner failed and the send to the *)
(* other owner was delivered                                                *)
C23_Witness ==
    /\ Finished
    /\ \E j, k \in 1..Len(digest.sends) :
         /\ digest.sends[j].outcome = "rejected"
         /\ digest.sends[k].outcome = "resolved"

(* a run whose query failed is over, with the failure logged *)
C23_WitnessQuery ==
    /\ Finished
    /\ digest.failed
    /\ digest.logged = 1

(* C24: the tasks in the lists of a run whose query succeeded are exactly    *)
(* the stored tasks due on the day of the run, not completed, owned by a    *)
(* user record with an email and not created on the day they are due; no    *)
(* mailed task is completed or was created on its due day.                  *)
C24_Included ==
    Queried =>
      /\ {digest.sends[p[1]].tasks[p[2]] : p \in Mailed} = {t \in Stored : Qualifies(t)}
      /\ \A p \in Mailed :
           LET t == digest.sends[p[1]].tasks[p[2]]
           IN /\ t.taskStatus # "completed"
              /\ \A d \in t.taskDeadline : ~SameDate(d, t.createdAt)

(* a run mailed a task although the store also holds a task created and due *)
(* on the day of the run and a task due at midnight of the next day         *)
C24_Witness ==
    /\ Queried
    /\ Mailed # {}
    /\ \E t \in Stored :
         /\ t.taskStatus # "completed"
         /\ accounts[t.user_id] = "email"
         /\ \E d \in t.taskDeadline : DayOf(d) = DayOf(clock) /\ SameDate(d, t.createdAt)

(* a run mailed the task due at midnight of its day and left out a          *)
(* completed task due the same day                                          *)
C24_WitnessBoundary ==
    /\ Queried
    /\ \E p \in Mailed : digest.sends[p[1]].tasks[p[2]].taskDeadline = {Midnight(clock)}
    /\ \E t \in Stored :
         /\ t.taskStatus = "completed"
         /\ \E d \in t.taskDeadline : DayOf(d) = DayOf(clock) /\ ~SameDate(d, t.createdAt)

---------------------------------------------------------------------------
(* The error handler *)

(* the kinds the handler knows, by status *)
Kinds ==
    {<<"VALIDATION_ERROR", "Validation Error">>, <<"UNAUTHORIZED", "Unauthorized">>,
     <<"FORBIDDEN", "Forbidden">>, <<"NOT_FOUND", "Not Found">>,
     <<"INTERNAL_SERVER_ERROR", "Server Error">>}

(* C25: the answer to a thrown error has the status left on the response,   *)
(* or the server-error status when it was still OK; its title is the kind   *)
(* of that status (Error for a status without a kind), its message is the   *)
(* error's message, and its stack is null in production and the error's     *)
(* stack in every other environment.                                        *)
C25_ErrorShape ==
    (req.op = "throw" /\ resp # NoResponse) =>
      /\ resp.code = IF req.statusCode = "OK" THEN "INTERNAL_SERVER_ERROR"
                     ELSE req.statusCode
      /\ \/ <<resp.code, resp.title>> \in Kinds
         \/ resp.title = "Error" /\ \A k \in Kinds : k[1] # resp.code
      /\ resp.message = req.err.message
      /\ req.env = "production" => resp.stack = Null
      /\ req.env # "production" => resp.stack = req.err.stack

(* an error thrown with no status set was answered in production as a       *)
(* server error with a null stack                                           *)
C25_Witness ==
    /\ req.op = "throw"
    /\ req.statusCode = "OK"
    /\ req.env = "production"
    /\ req.err.stack # Undefined
    /\ resp # NoResponse
    /\ resp.code = "INTERNAL_SERVER_ERROR"
    /\ resp.title = "Server Error"
    /\ resp.stack = Null

(* outside production an error with status NOT_FOUND was answered with its  *)
(* stack                                                                    *)
C25_WitnessStack ==
    /\ req.op = "throw"
    /\ req.statusCode = "NOT_FOUND"
    /\ req.env = "development"
    /\ resp # NoResponse
    /\ resp.title = "Not Found"
    /\ resp.stack = "Error: at asyncHandler"

---------------------------------------------------------------------------
(* What a create stores *)

(* C26: a create answered CREATED has added one task and changed no other;  *)
(* the new task is owned by the requester and pending, whatever status or   *)
(* owner the body names; its title is the trimmed title of the body, its    *)
(* type the body's type, its description the trimmed description when the   *)
(* body has a non-empty one and otherwise none, its deadline the body's     *)
(* date when it has one and otherwise none; the answer carries that task.   *)
C26_Created ==
    [][(req'.op = "createTask" /\ resp'.code = "CREATED") =>
         /\ DOMAIN tasks' = DOMAIN tasks \cup {nextId}
         /\ nextId \notin DOMAIN tasks
         /\ \A i \in DOMAIN tasks : tasks'[i] = tasks[i]
         /\ resp'.data = <<tasks'[nextId]>>
         /\ LET new == tasks'[nextId]
                body == req'.body
            IN /\ new._id = nextId
               /\ new.user_id = req'.user
               /\ new.taskStatus = "pending"
               /\ new.taskTitle = Text(body.title.len, FALSE)
               /\ new.type = body.type /\ body.type \in VALID_TYPE
               /\ new.taskDescription =
                    IF body.description.present /\ RawLen(body.description) > 0
                    THEN {Text(body.description.len, FALSE)} ELSE {}
               /\ new.taskDeadline =
                    IF body.deadline.kind = "date" THEN {body.deadline.at} ELSE {}]_vars

(* a create whose body names the status completed and another user as owner *)
(* stored a pending task of the requester with the trimmed title            *)
C26_Witness ==
    /\ req.op = "createTask"
    /\ resp.code = "CREATED"
    /\ req.body.status = "completed"
    /\ req.body.user_id \in Users \ {req.user}
    /\ req.body.title.pad
    /\ \E t \in Stored :
         /\ <<t>> = resp.data
         /\ t.user_id = req.user
         /\ t.taskStatus = "pending"
         /\ ~t.taskTitle.pad

---------------------------------------------------------------------------
(* What an update changes *)

Updates == {"updateTask", "partialUpdateTask"}

---------------------------------------------------------------------------
(* Concurrent requests *)

(* C28: under every interleaving, an update, partial update or delete by id *)
(* that answers success found its task at the time of its write: the        *)
(* update wrote to a stored task and answers with it, the delete removed    *)
(* the task itself.                                                         *)
C28_Claim ==
    \A s \in 1..MaxFlights :
      (inflight[s].pc = "answered" /\ inflight[s].code = "OK") =>
        /\ inflight[s].matched = 1
        /\ inflight[s].op \in Updates => Len(inflight[s].data) = 1

---------------------------------------------------------------------------
(* Overdue, today and active *)

(* C29: in every dashboard answer no task is in both the overdue list and   *)
(* the today list; every task of the overdue list is pending or in          *)
(* progress and so among the tasks activeCount counts, no task is listed    *)
(* overdue twice, and overdueCount is at most activeCount.                  *)
C29_Disjoint ==
    (req.op = "dashboard" /\ resp.code = "OK") =>
        LET overdue == resp.summary.tasksOverdue
            today == resp.summary.todayTasks
            active == {t \in Range(AggregatedList) :
                          t.taskStatus \in {"pending", "in-progress"}}
        IN /\ \A i \in 1..Len(overdue), j \in 1..Len(today) : overdue[i]._id # today[j]._id
           /\ \A i, j \in 1..Len(overdue) : overdue[i]._id = overdue[j]._id => i = j
           /\ Range(overdue) \subseteq active
           /\ resp.summary.activeTasksCount = Cardinality(active)
           /\ resp.summary.overdueTasksCount <= resp.summary.activeTasksCount

(* a dashboard listed an overdue task and a today task, over a list that    *)
(* also holds a completed task due before the reference day                 *)
C29_Witness ==
    /\ req.op = "dashboard"
    /\ resp.code = "OK"
    /\ Len(resp.summary.tasksOverdue) >= 1
    /\ Len(resp.summary.todayTasks) >= 1
    /\ resp.summary.overdueTasksCount < resp.summary.activeTasksCount
    /\ \E t \in Range(AggregatedList) :
         /\ t.taskStatus = "completed"
         /\ \E d \in t.taskDeadline : DayOf(d) < DayOf(clock)

====
